---------------------------- MODULE Spec2Model ----------------------------
(***************************************************************************)
(* SentryAI mission execution core: the SecurityScanWorkflow state machine *)
(* (apps/worker/workflows/security_scan.py) together with the              *)
(* ScopeEnforcer (apps/worker/cognitive/scope_enforcer.py) and the         *)
(* BudgetEnforcer (apps/worker/cognitive/budgets.py) it drives.            *)
(*                                                                         *)
(* Strings are sequences of tokens: a token is a maximal run of            *)
(* alphanumeric characters or one punctuation mark, so that                *)
(* "www.example.com" is <<"www", ".", "example", ".", "com">>.  strip,     *)
(* split, urlparse, the wildcard match and the domain regex work on the    *)
(* tokens the way the Python code works on the characters.                 *)
(***************************************************************************)
EXTENDS Integers, Sequences, FiniteSets, TLC

(***************************************************************************)
(* Bounds of the model.                                                    *)
(***************************************************************************)
MaxPlanLen == 2

MaxSignals == 2

MaxTime == 3

MaxFindings == 1

\* Messages published to Redis in one run of the event fabric.
MaxPublished == 2

\* Calls made on a scope enforcer used on its own.
MaxChecks == 2

\* Actions recorded on a budget enforcer called directly.
MaxActions == 2

\* Actions recorded in a run of record_action calls only.
MaxRepeats == 11

\* Steps of the longest plan of a mission that repeats one action.
MaxLoopPlan == 11

(***************************************************************************)
(* Program constants.                                                      *)
(***************************************************************************)
MaxIdleSeconds == 120

MaxConsecutiveErrors == 3

MaxRetriesPerTarget == 3

LoopDetectionWindow == 10

HistoryMaxLen == 50

AuditLogMax == 1000

ToolMaximumAttempts == 2

PlanMaximumAttempts == 3

(***************************************************************************)
(* Sequence helpers.                                                       *)
(***************************************************************************)
RECURSIVE IndexOf(_, _, _)
IndexOf(s, x, i) ==
    IF i > Len(s) THEN 0
    ELSE IF s[i] = x THEN i
    ELSE IndexOf(s, x, i + 1)

Contains(s, x) == IndexOf(s, x, 1) # 0

Take(s, n) == SubSeq(s, 1, n)

Drop(s, n) == SubSeq(s, n + 1, Len(s))

(***************************************************************************)
(* Token classes of the strings the model draws from.                      *)
(***************************************************************************)
NumericTokens == {"0", "1", "5", "8", "10", "80", "127", "168", "192"}

AlphaTokens ==
    {"www", "admin", "evil", "example", "google", "com", "gov", "WWW", "http"}

Lower(tok) == IF tok = "WWW" THEN "www" ELSE tok

RECURSIVE LowerStr(_)
LowerStr(s) == IF s = <<>> THEN <<>> ELSE <<Lower(Head(s))>> \o LowerStr(Tail(s))

\* str.strip(): whitespace removed at both ends.
RECURSIVE LStrip(_)
LStrip(s) == IF s # <<>> /\ Head(s) = " " THEN LStrip(Tail(s)) ELSE s

RECURSIVE RStrip(_)
RStrip(s) ==
    IF s # <<>> /\ s[Len(s)] = " " THEN RStrip(Take(s, Len(s) - 1)) ELSE s

Strip(s) == RStrip(LStrip(s))

(***************************************************************************)
(* ScopeDecision                                                           *)
(***************************************************************************)
ALLOWED == "allowed"

DENIED_OUT_OF_SCOPE == "denied_out_of_scope"

DENIED_EXCLUDED == "denied_excluded"

DENIED_SENSITIVE == "denied_sensitive"

DENIED_PRIVATE_IP == "denied_private_ip"

(***************************************************************************)
(* ScopeConfig.sensitive_patterns, always enforced.                        *)
(***************************************************************************)
sensitive_patterns ==
    << <<"*", ".", "gov">>, <<"*", ".", "gov", ".", "*">>, <<"*", ".", "mil">>,
       <<"*", ".", "nhs", ".", "uk">>, <<"*", ".", "va", ".", "gov">>,
       <<"*", ".", "edu">>, <<"*", ".", "bank">>, <<"*", ".", "fin">>,
       <<"*", ".", "google", ".", "com">>, <<"*", ".", "googleapis", ".", "com">>,
       <<"*", ".", "microsoft", ".", "com">>, <<"*", ".", "azure", ".", "com">>,
       <<"*", ".", "amazon", ".", "com">>,
       <<"*", ".", "aws", ".", "amazon", ".", "com">>,
       <<"*", ".", "cloudflare", ".", "com">>,
       <<"*", ".", "github", ".", "com">>,
       <<"*", ".", "githubusercontent", ".", "com">>,
       <<"*", ".", "facebook", ".", "com">>, <<"*", ".", "twitter", ".", "com">>,
       <<"*", ".", "linkedin", ".", "com">> >>

\* wildcard_to_regex: "*" matches any run of characters, every other token
\* matches itself ignoring case, and the pattern is anchored at both ends.
RECURSIVE WildcardMatch(_, _)
WildcardMatch(p, s) ==
    IF p = <<>> THEN s = <<>>
    ELSE IF Head(p) = "*"
         THEN WildcardMatch(Tail(p), s)
              \/ (s # <<>> /\ WildcardMatch(p, Tail(s)))
    ELSE s # <<>> /\ Lower(Head(p)) = Lower(Head(s))
         /\ WildcardMatch(Tail(p), Tail(s))

RECURSIVE AnyPatternMatches(_, _)
AnyPatternMatches(patterns, s) ==
    IF patterns = <<>> THEN FALSE
    ELSE WildcardMatch(Head(patterns), s) \/ AnyPatternMatches(Tail(patterns), s)

(***************************************************************************)
(* ipaddress.ip_address over the model's strings: dotted quads of numeric  *)
(* tokens, and the IPv6 loopback "::1".                                    *)
(***************************************************************************)
IsIPv4(s) ==
    /\ Len(s) = 7
    /\ \A i \in {1, 3, 5, 7} : s[i] \in NumericTokens
    /\ \A i \in {2, 4, 6} : s[i] = "."

IPv6Loopback == <<":", ":", "1">>

IsIPAddress(s) == IsIPv4(s) \/ s = IPv6Loopback

is_loopback(ip) == (IsIPv4(ip) /\ ip[1] = "127") \/ ip = IPv6Loopback

is_private(ip) ==
    \/ ip = IPv6Loopback
    \/ /\ IsIPv4(ip)
       /\ \/ ip[1] \in {"0", "10", "127"}
          \/ ip[1] = "192" /\ ip[3] = "168"

\* ScopeEnforcer._is_valid_domain: dot-separated labels, the last one
\* alphabetic and two characters or longer.
RECURSIVE LabelsOk(_)
LabelsOk(s) ==
    IF Len(s) = 1 THEN s[1] \in AlphaTokens
    ELSE /\ Len(s) >= 3
         /\ s[1] \in AlphaTokens \cup NumericTokens
         /\ s[2] = "."
         /\ LabelsOk(Drop(s, 2))

is_valid_domain(domain) == domain # <<>> /\ LabelsOk(domain)

\* urlparse(target).netloc or .path: what follows "://" up to the first "/",
\* or, when that is empty, the path from the "/" on.
NetlocOrPath(rest) ==
    LET slash == IndexOf(rest, "/", 1)
    IN  IF slash = 0 THEN rest
        ELSE IF slash = 1 THEN rest
        ELSE Take(rest, slash - 1)

UrlHost(s) == NetlocOrPath(Drop(s, IndexOf(s, "://", 1)))

\* ScopeEnforcer._normalize_target: the (domain, ip) pair, an absent part being
\* the empty string, or valid = FALSE where the code returns None.
\* "if '://' in target"
StripScheme(t) == IF Contains(t, "://") THEN UrlHost(t) ELSE t

\* "if ':' in target and not target.startswith('[')"
StripPort(t) ==
    IF Contains(t, ":") /\ ~(t # <<>> /\ Head(t) = "[")
    THEN Take(t, IndexOf(t, ":", 1) - 1)
    ELSE t

\* "if target.startswith('[') and ']' in target"
StripBrackets(t) ==
    IF t # <<>> /\ Head(t) = "[" /\ Contains(t, "]")
    THEN SubSeq(t, 2, IndexOf(t, "]", 1) - 1)
    ELSE t

\* The IP test, then the domain test.
IpOrDomain(t) ==
    IF IsIPAddress(t) THEN [valid |-> TRUE, domain |-> <<>>, ip |-> t]
    ELSE IF is_valid_domain(t)
         THEN [valid |-> TRUE, domain |-> LowerStr(t), ip |-> <<>>]
    ELSE [valid |-> FALSE, domain |-> <<>>, ip |-> <<>>]

normalize_target(target) ==
    IpOrDomain(StripBrackets(StripPort(StripScheme(Strip(target)))))

\* ipaddress.ip_network(spec, strict=False) membership for IPv4 networks whose
\* prefix length is a whole number of octets; a bare address is a /32.
PrefixOctets(net) ==
    IF Len(net) = 9 /\ net[8] = "/"
    THEN CASE net[9] = "8" -> 1
           [] net[9] = "16" -> 2
           [] net[9] = "24" -> 3
           [] OTHER -> 4
    ELSE 4

IsNetwork(net) ==
    /\ Len(net) \in {7, 9}
    /\ IsIPv4(Take(net, 7))
    /\ Len(net) = 9 => (net[8] = "/" /\ net[9] \in {"8", "16", "24", "32"})

InNetwork(ip, net) ==
    /\ IsIPv4(ip)
    /\ IsNetwork(net)
    /\ \A k \in 1..PrefixOctets(net) : ip[2 * k - 1] = net[2 * k - 1]

RECURSIVE InAnyNetwork(_, _)
InAnyNetwork(ip, nets) ==
    IF nets = <<>> THEN FALSE
    ELSE InNetwork(ip, Head(nets)) \/ InAnyNetwork(ip, Tail(nets))

\* A check that looks at the allow-list first.
scope_decision_allow_first(config, n) ==
    IF ~n.valid
    THEN [decision |-> DENIED_OUT_OF_SCOPE, reason |-> "Invalid target format",
          logged |-> FALSE]
    ELSE IF \/ n.domain # <<>> /\ AnyPatternMatches(config.allowed_domains, n.domain)
            \/ n.ip # <<>> /\ InAnyNetwork(n.ip, config.allowed_ips)
    THEN [decision |-> ALLOWED, reason |-> "Target is within defined scope",
          logged |-> TRUE]
    ELSE IF n.domain # <<>> /\ AnyPatternMatches(config.sensitive_patterns, n.domain)
    THEN [decision |-> DENIED_SENSITIVE,
          reason |-> "Target matches sensitive pattern", logged |-> TRUE]
    ELSE IF n.domain # <<>> /\ AnyPatternMatches(config.excluded_domains, n.domain)
    THEN [decision |-> DENIED_EXCLUDED,
          reason |-> "Domain explicitly excluded from scope", logged |-> TRUE]
    ELSE IF n.ip # <<>> /\ InAnyNetwork(n.ip, config.excluded_ips)
    THEN [decision |-> DENIED_EXCLUDED,
          reason |-> "IP explicitly excluded from scope", logged |-> TRUE]
    ELSE IF n.ip # <<>> /\ is_loopback(n.ip) /\ ~config.allow_localhost
    THEN [decision |-> DENIED_PRIVATE_IP,
          reason |-> "Localhost addresses not allowed", logged |-> TRUE]
    ELSE IF n.ip # <<>> /\ is_private(n.ip) /\ ~config.allow_private_ips
    THEN [decision |-> DENIED_PRIVATE_IP,
          reason |-> "Private IP addresses not allowed", logged |-> TRUE]
    ELSE [decision |-> DENIED_OUT_OF_SCOPE,
          reason |-> "Target not in allowed scope", logged |-> TRUE]

\* ScopeEnforcer.check_target: first match wins.  logged tells whether the
\* decision was appended to the audit log.
scope_decision(config, n) ==
    IF ~n.valid
    THEN [decision |-> DENIED_OUT_OF_SCOPE, reason |-> "Invalid target format",
          logged |-> FALSE]
    ELSE IF n.domain # <<>> /\ AnyPatternMatches(config.sensitive_patterns, n.domain)
    THEN [decision |-> DENIED_SENSITIVE,
          reason |-> "Target matches sensitive pattern", logged |-> TRUE]
    ELSE IF n.domain # <<>> /\ AnyPatternMatches(config.excluded_domains, n.domain)
    THEN [decision |-> DENIED_EXCLUDED,
          reason |-> "Domain explicitly excluded from scope", logged |-> TRUE]
    ELSE IF n.ip # <<>> /\ InAnyNetwork(n.ip, config.excluded_ips)
    THEN [decision |-> DENIED_EXCLUDED,
          reason |-> "IP explicitly excluded from scope", logged |-> TRUE]
    ELSE IF n.ip # <<>> /\ is_loopback(n.ip) /\ ~config.allow_localhost
    THEN [decision |-> DENIED_PRIVATE_IP,
          reason |-> "Localhost addresses not allowed", logged |-> TRUE]
    ELSE IF n.ip # <<>> /\ is_private(n.ip) /\ ~config.allow_private_ips
    THEN [decision |-> DENIED_PRIVATE_IP,
          reason |-> "Private IP addresses not allowed", logged |-> TRUE]
    ELSE IF \/ n.domain # <<>> /\ AnyPatternMatches(config.allowed_domains, n.domain)
            \/ n.ip # <<>> /\ InAnyNetwork(n.ip, config.allowed_ips)
    THEN [decision |-> ALLOWED, reason |-> "Target is within defined scope",
          logged |-> TRUE]
    ELSE [decision |-> DENIED_OUT_OF_SCOPE,
          reason |-> "Target not in allowed scope", logged |-> TRUE]

\* ScopeEnforcer.check_target
check_target(config, target) == scope_decision(config, normalize_target(target))

(***************************************************************************)
(* Tool arguments: a sequence of [key, kind, val] entries in insertion     *)
(* order.  kind is "str" (val holds the one string), "list" (val holds the *)
(* elements) or "other" (a bool or a number, val empty).                   *)
(***************************************************************************)
target_keys == <<"target", "host", "domain", "url", "ip", "hosts", "domains", "urls">>

\* arguments[key] for a key the dict holds (a dict holds a key once).
ArgIndex(arguments, key) ==
    IF \E i \in 1..Len(arguments) : arguments[i].key = key
    THEN CHOOSE i \in 1..Len(arguments) : arguments[i].key = key
    ELSE 0

RECURSIVE targets_to_check(_, _)
targets_to_check(arguments, keys) ==
    IF keys = <<>> THEN <<>>
    ELSE LET i == ArgIndex(arguments, Head(keys))
             here == IF i = 0 \/ arguments[i].kind = "other" THEN <<>>
                     ELSE arguments[i].val
         IN  here \o targets_to_check(arguments, Tail(keys))

RECURSIVE denied_targets(_, _)
denied_targets(config, targets) ==
    IF targets = <<>> THEN <<>>
    ELSE (IF check_target(config, Head(targets)).decision # ALLOWED
          THEN <<Head(targets)>> ELSE <<>>)
         \o denied_targets(config, Tail(targets))

\* A validation that only asks for a targetable argument.
validate_tool_call_lenient(config, arguments) ==
    IF targets_to_check(arguments, target_keys) = <<>>
    THEN [is_valid |-> FALSE, msg |-> "No target found in tool arguments"]
    ELSE [is_valid |-> TRUE, msg |-> "All targets within scope"]

\* ScopeEnforcer.validate_tool_call
validate_tool_call(config, arguments) ==
    LET targets == targets_to_check(arguments, target_keys)
    IN  IF targets = <<>>
        THEN [is_valid |-> FALSE, msg |-> "No target found in tool arguments"]
        ELSE IF denied_targets(config, targets) # <<>>
        THEN [is_valid |-> FALSE, msg |-> "Scope violation"]
        ELSE [is_valid |-> TRUE, msg |-> "All targets within scope"]

\* The audit entries validate_tool_call leaves, in decision order.
audit_entry(target, d) ==
    IF d.logged THEN <<[target |-> target, decision |-> d.decision]>> ELSE <<>>

RECURSIVE audit_entries(_, _)
audit_entries(config, targets) ==
    IF targets = <<>> THEN <<>>
    ELSE audit_entry(Head(targets), check_target(config, Head(targets)))
         \o audit_entries(config, Tail(targets))

\* ScopeEnforcer._log_decision: append, keeping the last 1000 entries.
log_decisions(audit_log, entries) ==
    LET all == audit_log \o entries
    IN  IF Len(all) > AuditLogMax THEN Drop(all, Len(all) - AuditLogMax) ELSE all

(***************************************************************************)
(* The strings, tool calls, plans and inputs the model draws from.         *)
(***************************************************************************)
S_www == <<"www", ".", "example", ".", "com">>

S_admin == <<"admin", ".", "example", ".", "com">>

S_evil == <<"evil", ".", "com">>

StrArg(k, s) == [key |-> k, kind |-> "str", val |-> <<s>>]

\* ToolCall: tool_name, arguments, target.
TC_scan ==
    [tool_name |-> "nuclei", arguments |-> <<StrArg("target", S_www)>>,
     target |-> S_www]

TC_admin ==
    [tool_name |-> "subfinder", arguments |-> <<StrArg("domain", S_admin)>>,
     target |-> S_admin]

TC_mismatch ==
    [tool_name |-> "naabu", arguments |-> <<StrArg("host", S_www)>>,
     target |-> S_evil]

ToolCalls == {TC_scan, TC_admin, TC_mismatch}

\* A call of a tool the worker has no definition for, on a target in scope.
TC_unknown ==
    [tool_name |-> "amass", arguments |-> <<StrArg("domain", S_www)>>,
     target |-> S_www]

\* PlanStep: ids dense from 1, each step depending on the one before it.
PlanStep(i, tc) ==
    [id |-> i, tool |-> tc, depends_on |-> IF i > 1 THEN <<i - 1>> ELSE <<>>]

Plans ==
    UNION {{[i \in 1..n |-> PlanStep(i, f[i])] : f \in [1..n -> ToolCalls]}
           : n \in 0..MaxPlanLen}

StepIds == 1..MaxPlanLen

KillReasons == {<<"op request">>}

ToolCosts == {0, 4}

\* ScanInput: the budget and mode fields and the scope lists.
ScanInput(auto_pilot, notify_on_finding, max_steps, max_runtime_minutes) ==
    [auto_pilot |-> auto_pilot,
     notify_on_finding |-> notify_on_finding,
     max_steps |-> max_steps,
     max_cost_usd |-> 5,
     max_runtime_minutes |-> max_runtime_minutes,
     allowed_scope |-> << <<"*", ".", "example", ".", "com">> >>,
     excluded_scope |-> << S_admin >>]

ScanInputs ==
    {ScanInput(FALSE, TRUE, 5, 60), ScanInput(TRUE, FALSE, 1, 60),
     ScanInput(TRUE, TRUE, 5, 2), ScanInput(FALSE, FALSE, 1, 2)}

(***************************************************************************)
(* State.                                                                  *)
(***************************************************************************)
VARIABLES
    input,           \* the ScanInput of the mission
    pc,              \* where SecurityScanWorkflow.run stands
    attempt,         \* attempt number of the activity run is awaiting
    idx,             \* position in _plan.steps of the step being processed
    pending,         \* findings of the current tool result not yet processed
    enforcers,       \* whether _scope_enforcer and _budget_enforcer exist
    _plan,          \* _plan: [set, steps]
    _approved_steps,\* _approved_steps
    _findings,      \* _findings
    _is_paused,     \* _is_paused
    _is_killed,     \* _is_killed
    _kill_reason,   \* _kill_reason (<<>> for None)
    state,           \* _budget_enforcer.state (BudgetState)
    audit_log,       \* _scope_enforcer._audit_log
    now,             \* the wall clock, in minutes
    start_time,      \* start_time of run
    output,          \* the ScanOutput run returned
    query_result,    \* the answer to the query just served
    n_signals,       \* signals delivered so far
    invoked,         \* history: the execute_tool dispatches, in order
    started,         \* history: the step loop has been entered
    approved_at_start, \* history: _approved_steps when the step loop was entered
    approvals_before,\* history: payloads of the approve_plan signals delivered
                     \* before the step loop was entered, in order
    n_approve_after, \* history: approve_plan signals delivered once in the loop
    after_kill,      \* history: signals delivered after a kill
    emitted,         \* the events published on the mission's channel, in order
    active_connections, \* ConnectionManager.active_connections (its session ids)
    subscriptions,   \* ConnectionManager.subscriptions: channel -> session ids
    inbox,           \* messages Redis has handed to the manager's listener
    received,        \* the frames each session's websocket was sent, in order
    published,       \* history: every message published to Redis, in order
    config,          \* ScopeEnforcer.config of an enforcer used on its own
    _audit_log,      \* ScopeEnforcer._audit_log of that enforcer
    checked,         \* the last call made on that enforcer and its outcome
    called,          \* the last call made on the BudgetEnforcer directly
    engine,          \* CognitiveEngine.think: its position, prompt and result
    command,         \* the last call of AutoDocumenter.build_command
    endpoints,       \* the running websocket_endpoint coroutines per session id
    delivery,        \* the broadcast in progress: its frame and position
    missions_db,     \* missions_db[mission_id]["status"] of the missions API
    temporal,        \* the workflow execution of the mission as Temporal holds it
    response         \* the answer to the last request to the missions API

wfVars ==
    <<_plan, _approved_steps, _findings, _is_paused, _is_killed,
      _kill_reason>>

progVars == <<input, pc, attempt, idx, pending, enforcers, wfVars, state,
              audit_log, start_time, output>>

histVars == <<invoked, started, approved_at_start, approvals_before,
              n_approve_after, after_kill>>

fabricVars == <<active_connections, subscriptions, inbox, received, published>>

missionVars == <<progVars, now, query_result, n_signals, histVars, emitted>>

scopeVars == <<config, _audit_log, checked>>

\* The variables of the components that are also run on their own.
\* The variables of the websocket endpoint and of a broadcast in progress.
recordVars == <<missions_db, temporal, response>>

apiVars == <<endpoints, delivery, recordVars>>

componentVars == <<fabricVars, scopeVars, called, engine, command, apiVars>>

\* What a step of the event fabric leaves alone.
outsideFabric == <<missionVars, scopeVars, called, engine, command, apiVars>>

\* What a step of the scope enforcer leaves alone.
outsideScope == <<missionVars, fabricVars, called, engine, command, apiVars>>

\* What a direct call on the budget enforcer leaves alone.
outsideBudget ==
    <<input, pc, attempt, idx, pending, enforcers, wfVars, audit_log,
      start_time, output, query_result, n_signals, histVars, emitted,
      fabricVars, scopeVars, engine, command, apiVars>>

\* What a step of the cognitive engine leaves alone.
outsideEngine == <<missionVars, fabricVars, scopeVars, called, command, apiVars>>

\* What a call of build_command leaves alone.
outsideCommand == <<missionVars, fabricVars, scopeVars, called, engine, apiVars>>

\* What a step of the websocket endpoint or of a broadcast leaves alone.
outsideApi == <<missionVars, scopeVars, called, engine, command, recordVars>>

\* What a request to the missions API leaves alone.
outsideRecord ==
    <<missionVars, fabricVars, scopeVars, called, engine, command, endpoints,
      delivery>>

vars == <<missionVars, componentVars>>

(***************************************************************************)
(* BudgetEnforcer                                                          *)
(***************************************************************************)
\* A budget that keeps the default max_steps (50) whatever the input says.
budget_default_steps ==
    [max_steps |-> 50,
     max_cost_usd |-> input.max_cost_usd,
     max_runtime_minutes |-> input.max_runtime_minutes,
     max_idle_seconds |-> MaxIdleSeconds,
     max_consecutive_errors |-> MaxConsecutiveErrors,
     max_retries_per_target |-> MaxRetriesPerTarget,
     loop_detection_window |-> LoopDetectionWindow,
     pause_on_warning |-> ~input.auto_pilot]

\* CognitiveBudget as _initialize_safety_systems builds it; the other fields
\* keep their defaults.
budget ==
    [max_steps |-> input.max_steps,
     max_cost_usd |-> input.max_cost_usd,
     max_runtime_minutes |-> input.max_runtime_minutes,
     max_idle_seconds |-> MaxIdleSeconds,
     max_consecutive_errors |-> MaxConsecutiveErrors,
     max_retries_per_target |-> MaxRetriesPerTarget,
     loop_detection_window |-> LoopDetectionWindow,
     pause_on_warning |-> ~input.auto_pilot]

\* BudgetState(): the counters at zero, both timestamps at the creation time.
BudgetState(t) ==
    [steps_taken |-> 0, total_cost_usd |-> 0, errors_encountered |-> 0,
     consecutive_errors |-> 0, started_at |-> t, last_action_at |-> t,
     action_history |-> <<>>, retry_counts |-> <<>>, is_paused |-> FALSE,
     is_killed |-> FALSE, kill_reason |-> <<>>]

PausedReason == <<"Mission is paused - awaiting human intervention">>

\* A step check that fires one step late (> for >=).
step_limit_exceeded(st, b) == st.steps_taken > b.max_steps

\* "if self.state.steps_taken >= self.budget.max_steps"
step_limit_reached(st, b) == st.steps_taken >= b.max_steps

\* A check that looks at the pause flag before the kill flag.
check_can_proceed_paused_first(st, b, t) ==
    IF st.is_paused
    THEN [ok |-> FALSE, reason |-> PausedReason]
    ELSE IF st.is_killed
    THEN [ok |-> FALSE, reason |-> <<"Mission killed: ">> \o st.kill_reason]
    ELSE [ok |-> ~(\/ st.steps_taken >= b.max_steps
                   \/ st.total_cost_usd >= b.max_cost_usd
                   \/ t - st.started_at > b.max_runtime_minutes
                   \/ (t - st.last_action_at) * 60 > b.max_idle_seconds
                   \/ st.consecutive_errors >= b.max_consecutive_errors),
          reason |-> <<>>]

\* BudgetEnforcer.check_can_proceed at wall-clock time t (minutes).
check_can_proceed(st, b, t) ==
    IF st.is_killed
    THEN [ok |-> FALSE, reason |-> <<"Mission killed: ">> \o st.kill_reason]
    ELSE IF st.is_paused
    THEN [ok |-> FALSE, reason |-> PausedReason]
    ELSE IF step_limit_reached(st, b)
    THEN [ok |-> FALSE, reason |-> <<"Step budget exhausted">>]
    ELSE IF st.total_cost_usd >= b.max_cost_usd
    THEN [ok |-> FALSE, reason |-> <<"Cost budget exhausted">>]
    ELSE IF t - st.started_at > b.max_runtime_minutes
    THEN [ok |-> FALSE, reason |-> <<"Time budget exhausted">>]
    ELSE IF (t - st.last_action_at) * 60 > b.max_idle_seconds
    THEN [ok |-> FALSE, reason |-> <<"Agent idle too long">>]
    ELSE IF st.consecutive_errors >= b.max_consecutive_errors
    THEN [ok |-> FALSE, reason |-> <<"Too many consecutive errors">>]
    ELSE [ok |-> TRUE, reason |-> <<>>]

\* The argument keys in sorted order, for sorted(parameters.items()).
SortedKeys ==
    <<"domain", "domains", "host", "hosts", "ip", "json_output", "request_id",
      "session_id", "tags", "target", "timestamp", "url", "urls">>

VolatileKeys == {"timestamp", "request_id", "session_id"}

RECURSIVE normalized_params(_, _)
normalized_params(parameters, keys) ==
    IF keys = <<>> THEN <<>>
    ELSE LET i == ArgIndex(parameters, Head(keys))
         IN  (IF i = 0 \/ Head(keys) \in VolatileKeys THEN <<>>
              ELSE <<parameters[i]>>)
             \o normalized_params(parameters, Tail(keys))

\* BudgetEnforcer._compute_action_signature: the digest is taken of this text.
compute_action_signature(action_type, target, parameters) ==
    [type |-> action_type, target |-> target,
     params |-> normalized_params(parameters, SortedKeys)]

\* BudgetEnforcer._check_warnings
check_warnings(st, b) ==
    IF b.pause_on_warning
       /\ (\/ 10 * st.total_cost_usd >= 8 * b.max_cost_usd
           \/ 10 * st.steps_taken >= 9 * b.max_steps)
    THEN [st EXCEPT !.is_paused = TRUE]
    ELSE st

Count(s, x) == Cardinality({i \in 1..Len(s) : s[i] = x})

\* A loop test that asks for more than the threshold share.
loop_detected_strict(st, b) ==
    /\ Len(st.action_history) >= b.loop_detection_window
    /\ \E i \in 1..Len(st.action_history) :
           10 * Count(Drop(st.action_history,
                           Len(st.action_history) - b.loop_detection_window),
                      st.action_history[i]) > 8 * b.loop_detection_window

\* LOOP_DETECTED: the most common signature of the last window actions has a
\* share of at least similarity_threshold (0.8).
loop_detected(st, b) ==
    /\ Len(st.action_history) >= b.loop_detection_window
    /\ LET recent == Drop(st.action_history,
                          Len(st.action_history) - b.loop_detection_window)
       IN  \E i \in 1..Len(recent) :
               10 * Count(recent, recent[i]) >= 8 * Len(recent)

\* BudgetEnforcer._check_for_loops
check_for_loops(st, b) ==
    IF loop_detected(st, b) /\ b.pause_on_warning
    THEN [st EXCEPT !.is_paused = TRUE]
    ELSE st

\* deque(maxlen=50).append
history_append(h, e) ==
    IF Len(h) >= HistoryMaxLen THEN Append(Tail(h), e) ELSE Append(h, e)

\* BudgetEnforcer.record_action at wall-clock time t.
record_action(st, b, action_type, target, parameters, cost_usd, t) ==
    LET st1 == [st EXCEPT
                  !.steps_taken = @ + 1,
                  !.total_cost_usd = @ + cost_usd,
                  !.last_action_at = t,
                  !.consecutive_errors = 0,
                  !.action_history = history_append(@,
                      compute_action_signature(action_type, target, parameters))]
    IN  check_for_loops(check_warnings(st1, b), b)

\* str.rstrip('/')
RECURSIVE RStripSlash(_)
RStripSlash(s) ==
    IF s # <<>> /\ s[Len(s)] = "/" THEN RStripSlash(Take(s, Len(s) - 1)) ELSE s

\* A key function that keeps the target as it was given.
budget_normalize_target_raw(target) == target

\* BudgetEnforcer._normalize_target: target.lower().strip().rstrip('/')
budget_normalize_target(target) == RStripSlash(Strip(LowerStr(target)))

\* retry_counts is a dict: [key, n] entries in insertion order, a key once.
RetryIndex(rc, key) ==
    IF \E i \in 1..Len(rc) : rc[i].key = key
    THEN CHOOSE i \in 1..Len(rc) : rc[i].key = key
    ELSE 0

\* retry_counts.get(key, 0)
retry_count(rc, key) ==
    IF RetryIndex(rc, key) = 0 THEN 0 ELSE rc[RetryIndex(rc, key)].n

\* retry_counts[key] = current_retries + 1
retry_counted(rc, key) ==
    IF RetryIndex(rc, key) = 0 THEN Append(rc, [key |-> key, n |-> 1])
    ELSE [rc EXCEPT ![RetryIndex(rc, key)].n = @ + 1]

\* BudgetEnforcer.record_retry: the value returned and the state it leaves.
record_retry(st, b, target) ==
    IF retry_count(st.retry_counts, budget_normalize_target(target))
           >= b.max_retries_per_target
    THEN [ok |-> FALSE, st |-> st]
    ELSE [ok |-> TRUE,
          st |-> [st EXCEPT !.retry_counts =
                     retry_counted(@, budget_normalize_target(target))]]

\* BudgetEnforcer.pause / resume / kill
budget_pause(st) == [st EXCEPT !.is_paused = TRUE]

budget_resume(st) == [st EXCEPT !.is_paused = FALSE, !.consecutive_errors = 0]

\* A kill that leaves the budget state as it was.
budget_kill_forgets(st, reason) == st

budget_kill(st, reason) == [st EXCEPT !.is_killed = TRUE, !.kill_reason = reason]

\* BudgetEnforcer.get_status; the percentages divide by the caps.
budget_get_status(st, b, t) ==
    IF b.max_steps = 0 \/ b.max_cost_usd = 0 \/ b.max_runtime_minutes = 0
    THEN [raised |-> TRUE, is_active |-> FALSE, is_paused |-> FALSE,
          is_killed |-> FALSE, steps_used |-> 0, steps_remaining |-> 0,
          cost_used |-> 0, cost_remaining |-> 0, elapsed_minutes |-> 0]
    ELSE [raised |-> FALSE,
          is_active |-> ~st.is_killed /\ ~st.is_paused,
          is_paused |-> st.is_paused,
          is_killed |-> st.is_killed,
          steps_used |-> st.steps_taken,
          steps_remaining |-> b.max_steps - st.steps_taken,
          cost_used |-> st.total_cost_usd,
          cost_remaining |-> b.max_cost_usd - st.total_cost_usd,
          elapsed_minutes |-> t - st.started_at]

(***************************************************************************)
(* SecurityScanWorkflow                                                    *)
(***************************************************************************)
\* ScopeConfig as _initialize_safety_systems builds it: both scope lists go to
\* the domain patterns, the IP lists stay empty.
mission_scope(allowed_scope, excluded_scope) ==
    [allowed_domains |-> allowed_scope,
     allowed_ips |-> <<>>,
     excluded_domains |-> excluded_scope,
     excluded_ips |-> <<>>,
     allow_private_ips |-> FALSE,
     allow_localhost |-> FALSE,
     sensitive_patterns |-> sensitive_patterns]

scope_config == mission_scope(input.allowed_scope, input.excluded_scope)

NoOutput ==
    [status |-> "none", findings |-> <<>>, steps_taken |-> 0, cost_usd |-> 0,
     runtime_seconds |-> 0, error_message |-> <<>>]

NoQuery == [query |-> "none"]

ActivityError == <<"activity error">>

\* The states in which run awaits an activity, and the retry policy of each:
\* maximum_attempts of generate_execution_plan and execute_tool; the other
\* activities surface a failure when it is not retryable.
ActivityStates == {"planning", "emit_plan", "tool", "notify", "emit_step", "emit_scope"}

MaximumAttempts(p) ==
    CASE p = "planning" -> PlanMaximumAttempts
      [] p = "tool" -> ToolMaximumAttempts
      [] OTHER -> 1

\* return ScanOutput(...)
ScanOutput(status, st, fnd, msg) ==
    [status |-> status, findings |-> fnd, steps_taken |-> st.steps_taken,
     cost_usd |-> st.total_cost_usd,
     runtime_seconds |-> (now - start_time) * 60, error_message |-> msg]

\* A loop that skips no step.
step_approved_always(step, approved) == TRUE

\* "if step.id not in self._approved_steps: continue"
step_approved(step, approved) == step.id \in approved

\* The first step at or after position i that is approved, Len + 1 if none.
RECURSIVE next_approved(_, _, _)
next_approved(steps, approved, i) ==
    IF i > Len(steps) THEN i
    ELSE IF step_approved(steps[i], approved) THEN i
    ELSE next_approved(steps, approved, i + 1)

\* An execute_tool dispatch as the history keeps it.
Dispatch(step, approved) ==
    [step_id |-> step.id, tool |-> step.tool, approved |-> approved,
     approvals |-> Len(approvals_before) + n_approve_after,
     killed |-> _is_killed]

\* The step loop from position i up to its next await or return: skip the
\* steps not approved, then check_can_proceed, validate_tool_call, and the
\* dispatch of execute_tool or of emit_scope_violation.
ProcessStep(j, step, cp, approved, st, fnd) ==
    IF ~cp.ok
    THEN /\ pc' = "done"
         /\ output' = ScanOutput("exhausted", st, fnd, cp.reason)
         /\ UNCHANGED <<idx, audit_log, invoked>>
    ELSE /\ idx' = j
         /\ audit_log' = log_decisions(audit_log,
               audit_entries(scope_config,
                             targets_to_check(step.tool.arguments, target_keys)))
         /\ output' = output
         /\ IF validate_tool_call(scope_config, step.tool.arguments).is_valid
            THEN /\ pc' = "tool"
                 /\ invoked' = Append(invoked, Dispatch(step, approved))
            ELSE /\ pc' = "emit_scope"
                 /\ invoked' = invoked

\* The loop at step position j, Len + 1 when the steps are used up.
LoopAt(j, steps, approved, st, fnd) ==
    IF j > Len(steps)
    THEN /\ pc' = "done"
         /\ output' = ScanOutput("completed", st, fnd, <<>>)
         /\ UNCHANGED <<idx, audit_log, invoked>>
    ELSE ProcessStep(j, steps[j], check_can_proceed(st, budget, now),
                     approved, st, fnd)

StepLoop(i, steps, approved, st, fnd) ==
    LoopAt(next_approved(steps, approved, i), steps, approved, st, fnd)

\* Lines 136-148: the kill check after the approval wait, then the loop.
AfterApproval(steps, approved, st) ==
    IF _is_killed
    THEN /\ pc' = "done"
         /\ output' = ScanOutput("killed", st, _findings, _kill_reason)
         /\ UNCHANGED <<idx, audit_log, invoked, started, approved_at_start>>
    ELSE /\ started' = TRUE
         /\ approved_at_start' = approved
         /\ StepLoop(1, steps, approved, st, _findings)

\* The message an emit_* activity publishes: its type, its step_id (0 for
\* plan_proposal, which carries none) and the "message" emit_scope_violation
\* is handed ("" for the other events, which carry none).
Event(type, step_id, message) ==
    [type |-> type, step_id |-> step_id, message |-> message]

\* run up to its first await: _initialize_safety_systems and the dispatch of
\* generate_execution_plan.
RunStart ==
    /\ pc = "start"
    /\ enforcers' = TRUE
    /\ state' = BudgetState(now)
    /\ audit_log' = <<>>
    /\ start_time' = now
    /\ pc' = "planning"
    /\ attempt' = 1
    /\ query_result' = NoQuery
    /\ UNCHANGED <<componentVars, input, idx, pending, wfVars, output, now, n_signals,
                   histVars,
                   emitted>>

\* generate_execution_plan returns plan p.
PlanReady(p) ==
    /\ pc = "planning"
    /\ _plan' = [set |-> TRUE, steps |-> p]
    /\ attempt' = 1
    /\ query_result' = NoQuery
    /\ IF ~input.auto_pilot
       THEN /\ pc' = "emit_plan"
            /\ UNCHANGED <<_approved_steps, idx, audit_log, output, invoked,
                           started, approved_at_start>>
       ELSE /\ _approved_steps' = {p[i].id : i \in 1..Len(p)}
            /\ AfterApproval(p, _approved_steps', state)
    /\ UNCHANGED <<componentVars, input, pending, enforcers, _findings, _is_paused, _is_killed,
                   _kill_reason, state, start_time, now, n_signals,
                   approvals_before, n_approve_after, after_kill,
                   emitted>>

\* emit_plan_proposal returns: run reaches wait_condition.
EmitPlanDone ==
    /\ pc = "emit_plan"
    /\ pc' = "await_approval"
    /\ emitted' = Append(emitted, Event("plan_proposal", 0, ""))
    /\ query_result' = NoQuery
    /\ UNCHANGED <<componentVars, input, attempt, idx, pending, enforcers, wfVars, state,
                   audit_log, start_time, output, now, n_signals,
                   histVars>>

\* lambda: len(self._approved_steps) > 0 or self._is_killed
wait_condition == _approved_steps # {} \/ _is_killed

\* wait_condition is satisfied and run goes on.
ApprovalWake ==
    /\ pc = "await_approval"
    /\ wait_condition
    /\ attempt' = 1
    /\ query_result' = NoQuery
    /\ AfterApproval(_plan.steps, _approved_steps, state)
    /\ UNCHANGED <<componentVars, input, pending, enforcers, wfVars, state, start_time, now,
                   n_signals, approvals_before, n_approve_after, after_kill,
                   emitted>>

Finding(step, k) == [step_id |-> step.id, id |-> k]

\* A findings list that takes the new finding at its head.
findings_prepend(fnd, f) == <<f>> \o fnd

\* "self._findings.append(finding)"
findings_append(fnd, f) == Append(fnd, f)

\* "for finding in result.get('findings', [])" without notifications: the
\* findings k..nf of the step's result appended in order.
RECURSIVE append_findings(_, _, _, _)
append_findings(fnd, step, k, nf) ==
    IF k > nf THEN fnd
    ELSE append_findings(findings_append(fnd, Finding(step, k)), step, k + 1, nf)

\* The tool names get_builtin_definition knows.
BUILTIN_DEFINITIONS == {"nuclei", "subfinder", "naabu", "httpx"}

\* execute_tool returns a result with the given cost_usd and number of
\* findings: record_action, then the findings up to the first notification.
\* It raises ValueError for a tool without a definition and returns nothing.
ToolDone(cost, nf) ==
    /\ pc = "tool"
    /\ _plan.steps[idx].tool.tool_name \in BUILTIN_DEFINITIONS
    /\ LET step == _plan.steps[idx]
       IN  /\ state' = record_action(state, budget, step.tool.tool_name,
                                     step.tool.target, step.tool.arguments,
                                     cost, now)
           /\ IF nf = 0
              THEN /\ pc' = "emit_step"
                   /\ UNCHANGED <<_findings, pending>>
              ELSE IF input.notify_on_finding
              THEN /\ pc' = "notify"
                   /\ _findings' = findings_append(_findings, Finding(step, 1))
                   /\ pending' = nf - 1
              ELSE /\ pc' = "emit_step"
                   /\ _findings' = append_findings(_findings, step, 1, nf)
                   /\ pending' = 0
    /\ attempt' = 1
    /\ query_result' = NoQuery
    /\ UNCHANGED <<componentVars, input, idx, enforcers, _plan, _approved_steps, _is_paused,
                   _is_killed, _kill_reason, audit_log, start_time, output, now,
                   n_signals, histVars,
                   emitted>>

\* send_finding_notification returns: the next finding, or emit_step_complete.
NotifyDone ==
    /\ pc = "notify"
    /\ IF pending > 0
       THEN /\ _findings' = findings_append(_findings,
                  Finding(_plan.steps[idx],
                          Cardinality({i \in 1..Len(_findings) :
                              _findings[i].step_id = _plan.steps[idx].id}) + 1))
            /\ pending' = pending - 1
            /\ pc' = "notify"
       ELSE /\ pc' = "emit_step"
            /\ UNCHANGED <<_findings, pending>>
    /\ attempt' = 1
    /\ query_result' = NoQuery
    /\ UNCHANGED <<componentVars, input, idx, enforcers, _plan, _approved_steps, _is_paused,
                   _is_killed, _kill_reason, state, audit_log, start_time,
                   output, now, n_signals, histVars,
                   emitted>>

\* emit_step_complete or emit_scope_violation returns: the next iteration.
EmitDone ==
    /\ pc \in {"emit_step", "emit_scope"}
    /\ emitted' = Append(emitted,
           IF pc = "emit_step"
           THEN Event("step_complete", _plan.steps[idx].id, "")
           ELSE Event("scope_violation", _plan.steps[idx].id,
                      validate_tool_call(scope_config,
                                         _plan.steps[idx].tool.arguments).msg))
    /\ attempt' = 1
    /\ query_result' = NoQuery
    /\ StepLoop(idx + 1, _plan.steps, _approved_steps, state, _findings)
    /\ UNCHANGED <<componentVars, input, pending, enforcers, wfVars, state, start_time, now,
                   n_signals, started, approved_at_start,
                   approvals_before, n_approve_after, after_kill>>

\* An attempt of the awaited activity fails: the engine retries it while the
\* retry policy allows, then the failure is raised in run and caught by
\* "except Exception".
ActivityFails ==
    /\ pc \in ActivityStates
    /\ query_result' = NoQuery
    /\ IF attempt < MaximumAttempts(pc)
       THEN /\ attempt' = attempt + 1
            /\ UNCHANGED <<pc, output>>
       ELSE /\ pc' = "done"
            /\ output' = ScanOutput("failed", state, _findings, ActivityError)
            /\ attempt' = attempt
    /\ UNCHANGED <<componentVars, input, idx, pending, enforcers, wfVars, state, audit_log,
                   start_time, now, n_signals, histVars,
                   emitted>>

(***************************************************************************)
(* Signals.  A signal is handled whenever the workflow has not returned,   *)
(* also before run has built the enforcers.                                *)
(***************************************************************************)
SignalDelivery(name) ==
    /\ pc # "done"
    /\ n_signals < MaxSignals
    /\ n_signals' = n_signals + 1
    /\ after_kill' = IF _is_killed THEN after_kill \cup {name} ELSE after_kill
    /\ query_result' = NoQuery

\* An approve_plan that adds to the approved set instead of replacing it.
approve_plan_merging(approved_steps) ==
    /\ _approved_steps' = _approved_steps \cup approved_steps
    /\ UNCHANGED <<_plan, _findings, _is_paused, _is_killed, _kill_reason, state>>

\* SecurityScanWorkflow.approve_plan
approve_plan(approved_steps) ==
    /\ _approved_steps' = approved_steps
    /\ UNCHANGED <<_plan, _findings, _is_paused, _is_killed, _kill_reason, state>>

\* SecurityScanWorkflow.pause
pause ==
    /\ _is_paused' = TRUE
    /\ state' = IF enforcers THEN budget_pause(state) ELSE state
    /\ UNCHANGED <<_plan, _approved_steps, _findings, _is_killed, _kill_reason>>

\* SecurityScanWorkflow.resume
resume ==
    /\ _is_paused' = FALSE
    /\ state' = IF enforcers THEN budget_resume(state) ELSE state
    /\ UNCHANGED <<_plan, _approved_steps, _findings, _is_killed, _kill_reason>>

\* SecurityScanWorkflow.kill
kill(reason) ==
    /\ _is_killed' = TRUE
    /\ _kill_reason' = reason
    /\ state' = IF enforcers THEN budget_kill(state, reason) ELSE state
    /\ UNCHANGED <<_plan, _approved_steps, _findings, _is_paused>>

ApprovePlanSignal(approved_steps) ==
    /\ SignalDelivery("approve_plan")
    /\ approve_plan(approved_steps)
    /\ approvals_before' = IF started THEN approvals_before
                            ELSE Append(approvals_before, approved_steps)
    /\ n_approve_after' = IF started THEN n_approve_after + 1 ELSE n_approve_after
    /\ UNCHANGED <<componentVars, input, pc, attempt, idx, pending, enforcers, audit_log,
                   start_time, output, now, invoked, started,
                   approved_at_start,
                   emitted>>

PauseSignal ==
    /\ SignalDelivery("pause")
    /\ pause
    /\ UNCHANGED <<componentVars, input, pc, attempt, idx, pending, enforcers, audit_log,
                   start_time, output, now, invoked, started,
                   approved_at_start, approvals_before, n_approve_after,
                   emitted>>

ResumeSignal ==
    /\ SignalDelivery("resume")
    /\ resume
    /\ UNCHANGED <<componentVars, input, pc, attempt, idx, pending, enforcers, audit_log,
                   start_time, output, now, invoked, started,
                   approved_at_start, approvals_before, n_approve_after,
                   emitted>>

KillSignal(reason) ==
    /\ SignalDelivery("kill")
    /\ kill(reason)
    /\ UNCHANGED <<componentVars, input, pc, attempt, idx, pending, enforcers, audit_log,
                   start_time, output, now, invoked, started,
                   approved_at_start, approvals_before, n_approve_after,
                   emitted>>

(***************************************************************************)
(* Queries.                                                                *)
(***************************************************************************)
\* A get_status that counts as activity of the agent.
get_status_touching ==
    /\ query_result' = [query |-> "get_status"]
    /\ state' = [state EXCEPT !.last_action_at = now]
    /\ UNCHANGED <<componentVars, input, pc, attempt, idx, pending, enforcers, wfVars,
                   audit_log, start_time, output, histVars,
                   emitted>>

\* SecurityScanWorkflow.get_status
get_status ==
    /\ query_result' =
          [query |-> "get_status",
           is_paused |-> _is_paused,
           is_killed |-> _is_killed,
           findings_count |-> Len(_findings),
           has_budget |-> enforcers,
           budget |-> budget_get_status(state, budget, now),
           current_plan |-> _plan,
           approved_steps |-> _approved_steps]
    /\ UNCHANGED <<componentVars, progVars, histVars, emitted>>

\* SecurityScanWorkflow.get_findings
get_findings ==
    /\ query_result' = [query |-> "get_findings", findings |-> _findings]
    /\ UNCHANGED <<componentVars, progVars, histVars, emitted>>

GetStatusQuery ==
    /\ get_status
    /\ UNCHANGED <<now, n_signals>>

GetFindingsQuery ==
    /\ get_findings
    /\ UNCHANGED <<now, n_signals>>

\* A minute passes while run awaits the approval signal or one of the
\* activities whose start_to_close_timeout is longer than a minute.
Tick ==
    /\ pc \in {"planning", "await_approval", "tool"}
    /\ now < MaxTime
    /\ now' = now + 1
    /\ query_result' = NoQuery
    /\ UNCHANGED <<componentVars, progVars, n_signals, histVars,
                   emitted>>

(***************************************************************************)
(* The event fabric: Redis pub/sub between the workers and the             *)
(* ConnectionManager, and the manager's websocket sessions.                *)
(***************************************************************************)
Sessions == {"s1", "s2"}

MissionIds == {"m1"}

\* f"agent_events:{mission_id}", the channel of the emit_* activities.
MissionChannel(m) == <<"agent_events", ":", m>>

\* f"job_logs:{job_id}"
JobChannel(j) == <<"job_logs", ":", j>>

\* The channels sessions subscribe to through the websocket endpoint.
SessionChannels == {JobChannel("j1")}

\* pubsub.subscribe("agent_events", "scan_updates", "graph_updates",
\* "findings", "notifications")
ListenerChannels ==
    {<<"agent_events">>, <<"scan_updates">>, <<"graph_updates">>,
     <<"findings">>, <<"notifications">>}

\* channel.startswith("job_logs:"), also the match of psubscribe("job_logs:*")
IsJobLogChannel(channel) ==
    Len(channel) >= 2 /\ channel[1] = "job_logs" /\ channel[2] = ":"

\* Redis hands a published message to the listener when its channel is one
\* the listener subscribed to or matches the pattern it subscribed to.
listener_receives(channel) ==
    channel \in ListenerChannels \/ IsJobLogChannel(channel)

\* The payload of a message: its "type" and "event_type" keys ("" when the
\* key is absent) and the step it is about.
Payload(type, event_type, step_id) ==
    [type |-> type, event_type |-> event_type, step_id |-> step_id]

\* What the emit_* activities publish for an event of the workflow.
EventPayload(e) == Payload(e.type, "", e.step_id)

WorkflowEvents ==
    {Event("plan_proposal", 0, ""), Event("step_complete", 1, ""),
     Event("scope_violation", 1, "Scope violation")}

\* {"type": default, **data}: a "type" key of the payload wins.
Frame(default, data) ==
    [type |-> IF data.type # "" THEN data.type ELSE default, data |-> data]

\* _handle_redis_message: the frame and the way it is sent, by channel.
route(channel, data) ==
    IF IsJobLogChannel(channel)
    THEN [to |-> "channel", frame |-> Frame("server:job_log", data)]
    ELSE IF channel = <<"agent_events">>
    THEN [to |-> "all",
          frame |-> Frame(IF data.event_type # "" THEN data.event_type
                          ELSE "server:agent_thought", data)]
    ELSE IF channel = <<"scan_updates">>
    THEN [to |-> "all", frame |-> Frame("server:job_status", data)]
    ELSE IF channel = <<"graph_updates">>
    THEN [to |-> "all", frame |-> Frame("server:graph_update", data)]
    ELSE IF channel = <<"findings">>
    THEN [to |-> "all", frame |-> Frame("server:finding", data)]
    ELSE IF channel = <<"notifications">>
    THEN [to |-> "all", frame |-> Frame("server:notification", data)]
    ELSE [to |-> "none", frame |-> Frame("", data)]

\* redis.publish(channel, json.dumps(message))
redis_publish(source, channel, data) ==
    /\ Len(published) < MaxPublished
    /\ published' = Append(published,
                           [source |-> source, channel |-> channel, data |-> data])
    /\ inbox' = IF listener_receives(channel)
                THEN Append(inbox, [channel |-> channel, data |-> data])
                ELSE inbox

\* ConnectionManager.connect
connect(x) ==
    /\ x \notin active_connections
    /\ active_connections' = active_connections \cup {x}
    /\ UNCHANGED <<subscriptions, inbox, received, published, outsideFabric>>

\* The state after ConnectionManager.disconnect of the sessions in gone.
without(subs, gone) == [c \in DOMAIN subs |-> subs[c] \ gone]

\* ConnectionManager.disconnect
disconnect(x) ==
    /\ x \in active_connections
    /\ active_connections' = active_connections \ {x}
    /\ subscriptions' = without(subscriptions, {x})
    /\ UNCHANGED <<inbox, received, published, outsideFabric>>

\* ConnectionManager.subscribe_session, called by the websocket endpoint of a
\* connected session.
subscribe_session(x, channel) ==
    /\ x \in active_connections
    /\ subscriptions' = [subscriptions EXCEPT ![channel] = @ \cup {x}]
    /\ UNCHANGED <<active_connections, inbox, received, published, outsideFabric>>

\* ConnectionManager.unsubscribe_session
unsubscribe_session(x, channel) ==
    /\ x \in active_connections
    /\ subscriptions' = [subscriptions EXCEPT ![channel] = @ \ {x}]
    /\ UNCHANGED <<active_connections, inbox, received, published, outsideFabric>>

\* An emit_* activity of mission m publishes event e.
WorkflowEmit(m, e) ==
    /\ redis_publish("workflow", MissionChannel(m), EventPayload(e))
    /\ UNCHANGED <<active_connections, subscriptions, received, outsideFabric>>

\* ConnectionManager.publish_plan_proposal, publish_job_log and
\* publish_scan_update.
ManagerPublishes ==
    {[channel |-> <<"agent_events">>,
      data |-> Payload("", "server:plan_proposal", 0)],
     [channel |-> JobChannel("j1"), data |-> Payload("", "", 0)],
     [channel |-> <<"scan_updates">>, data |-> Payload("", "", 0)]}

ManagerPublish(m) ==
    /\ redis_publish("manager", m.channel, m.data)
    /\ UNCHANGED <<active_connections, subscriptions, received, outsideFabric>>

\* ConnectionManager.broadcast: the frame goes to every connected session;
\* the sessions whose send raises (failing) are disconnected after the loop.
broadcast(frame, failing) ==
    /\ received' = [x \in Sessions |->
                       IF x \in active_connections \ failing
                       THEN Append(received[x], frame) ELSE received[x]]
    /\ active_connections' = active_connections \ failing
    /\ subscriptions' = IF active_connections \cap failing = {} THEN subscriptions
                        ELSE without(subscriptions, failing)

\* The subscribers of a channel in an order the set iteration may take.
Orders(S) ==
    {o \in [1..Cardinality(S) -> S] : \A i, j \in 1..Cardinality(S) :
                                          i # j => o[i] # o[j]}

\* The position at which the loop of broadcast_to_channel stops: that of the
\* first connected subscriber whose send raises (send_to_session disconnects
\* it, which discards it from the set being iterated, and the iteration
\* raises), or past the end.
RECURSIVE stop_at(_, _, _)
stop_at(order, failing, i) ==
    IF i > Len(order) THEN i
    ELSE IF order[i] \in active_connections \cap failing THEN i
    ELSE stop_at(order, failing, i + 1)

\* ConnectionManager.broadcast_to_channel
broadcast_to_channel(channel, frame, order, failing, k) ==
    /\ received' = [x \in Sessions |->
                       IF /\ x \in active_connections
                          /\ \E i \in 1..(k - 1) : order[i] = x
                       THEN Append(received[x], frame) ELSE received[x]]
    /\ active_connections' =
           IF k > Len(order) THEN active_connections
           ELSE active_connections \ {order[k]}
    /\ subscriptions' =
           IF k > Len(order) THEN subscriptions
           ELSE without(subscriptions, {order[k]})

\* The listener takes the next message: _handle_redis_message.
HandleRedisMessage(failing) ==
    /\ inbox # <<>>
    /\ inbox' = Tail(inbox)
    /\ LET r == route(Head(inbox).channel, Head(inbox).data)
       IN  CASE r.to = "all" -> broadcast(r.frame, failing)
             [] r.to = "channel" ->
                   IF Head(inbox).channel \in DOMAIN subscriptions
                   THEN \E order \in Orders(subscriptions[Head(inbox).channel]) :
                            broadcast_to_channel(Head(inbox).channel, r.frame,
                                order, failing, stop_at(order, failing, 1))
                   ELSE UNCHANGED <<received, active_connections, subscriptions>>
             [] OTHER -> UNCHANGED <<received, active_connections, subscriptions>>
    /\ UNCHANGED <<published, outsideFabric>>

(***************************************************************************)
(* The ScopeEnforcer used on its own: check_target and validate_tool_call  *)
(* called with any value, on an enforcer of any configuration.             *)
(***************************************************************************)
\* ScopeConfig(...)
ScopeConfig(ad, ai, xd, xi, private_ok, localhost_ok) ==
    [allowed_domains |-> ad,
     allowed_ips |-> ai,
     excluded_domains |-> xd,
     excluded_ips |-> xi,
     allow_private_ips |-> private_ok,
     allow_localhost |-> localhost_ok,
     sensitive_patterns |-> sensitive_patterns]

\* A value handed over as a target: a string, or a value of another type (a
\* number, None, a dict) as a list argument may hold.
Str(s) == [is_str |-> TRUE, s |-> s]

NotAString == [is_str |-> FALSE, s |-> <<>>]

\* urlparse(target).netloc: what follows "://" up to the first "/".
Netloc(rest) ==
    IF IndexOf(rest, "/", 1) = 0 THEN rest
    ELSE Take(rest, IndexOf(rest, "/", 1) - 1)

\* urlparse raises ValueError("Invalid IPv6 URL") for a netloc that holds one
\* of "[" and "]" without the other.
urlparse_raises(t) ==
    /\ Contains(t, "://")
    /\ Contains(Netloc(Drop(t, IndexOf(t, "://", 1))), "[")
         # Contains(Netloc(Drop(t, IndexOf(t, "://", 1))), "]")

\* _normalize_target raises: target.strip() of a value that is no string
\* (AttributeError), or urlparse of the stripped string (ValueError).
normalize_raises(v) == ~v.is_str \/ urlparse_raises(Strip(v.s))

\* The outcome of a call check_target(v): raised, or the decision returned.
check_target_outcome(cfg, v) ==
    IF normalize_raises(v)
    THEN [raised |-> TRUE, decision |-> "", reason |-> "", is_valid |-> FALSE,
          entries |-> <<>>]
    ELSE [raised |-> FALSE,
          decision |-> check_target(cfg, v.s).decision,
          reason |-> check_target(cfg, v.s).reason,
          is_valid |-> check_target(cfg, v.s).decision = ALLOWED,
          entries |-> audit_entry(v.s, check_target(cfg, v.s))]

\* The position of the first target whose check raises, 0 if none does.
RECURSIVE first_raising(_, _)
first_raising(targets, i) ==
    IF i > Len(targets) THEN 0
    ELSE IF normalize_raises(targets[i]) THEN i
    ELSE first_raising(targets, i + 1)

Strings(targets) == [i \in 1..Len(targets) |-> targets[i].s]

StrArgs(arguments) ==
    [i \in 1..Len(arguments) |->
        [arguments[i] EXCEPT !.val = Strings(arguments[i].val)]]

\* The outcome of a call validate_tool_call(tool_name, arguments): the loop
\* over targets_to_check stops at the first target whose check raises (k).
validate_tool_call_outcome(cfg, arguments, targets, k) ==
    IF k # 0
    THEN [raised |-> TRUE, decision |-> "", reason |-> "", is_valid |-> FALSE,
          entries |-> audit_entries(cfg, Strings(Take(targets, k - 1)))]
    ELSE [raised |-> FALSE, decision |-> "",
          reason |-> validate_tool_call(cfg, StrArgs(arguments)).msg,
          is_valid |-> validate_tool_call(cfg, StrArgs(arguments)).is_valid,
          entries |-> audit_entries(cfg, Strings(targets))]

\* The strings and values the calls are made with.
S_google == <<"www", ".", "google", ".", "com">>

S_private == <<"10", ".", "0", ".", "0", ".", "5">>

S_localhost == <<"127", ".", "0", ".", "0", ".", "1">>

\* Domains and addresses of every rule, the empty string, a bare and a
\* bracketed IPv6 address, a URL with a port and padding, a URL whose host
\* opens a bracket that is never closed.
TargetStrings ==
    {S_www, S_admin, S_evil, S_google, S_private, S_localhost,
     <<"10", ".", "0", ".", "0", ".", "8">>,
     <<"192", ".", "168", ".", "0", ".", "1">>,
     <<"8", ".", "8", ".", "8", ".", "8">>,
     <<>>,
     IPv6Loopback,
     <<"[", ":", ":", "1", "]">>,
     <<" ", "http", "://", "WWW", ".", "example", ".", "com", ":", "80", "/">>,
     <<"http", "://", "[", ":", ":", "1">>}

TargetValues == {Str(s) : s \in TargetStrings}

ListArg(k, values) == [key |-> k, kind |-> "list", val |-> values]

OtherArg(k) == [key |-> k, kind |-> "other", val |-> <<>>]

ScopeToolCalls ==
    {<<[key |-> "target", kind |-> "str", val |-> <<Str(S_www)>>], OtherArg("threads")>>,
     <<ListArg("hosts", <<Str(S_www), Str(S_admin)>>)>>,
     <<ListArg("hosts", <<Str(S_www), NotAString>>)>>,
     <<ListArg("urls", <<Str(<<"http", "://", "[", ":", ":", "1">>)>>)>>,
     <<ListArg("domains", <<Str(<<>>)>>)>>,
     <<OtherArg("threads")>>}

ScopeConfigs ==
    {ScopeConfig(<< <<"*", ".", "example", ".", "com">>,
                    <<"*", ".", "google", ".", "com">> >>,
                 << <<"10", ".", "0", ".", "0", ".", "0", "/", "8">>,
                    S_localhost >>,
                 xd, xi, p, l) :
        xd \in {<<>>, <<S_admin>>}, xi \in {<<>>, <<S_private>>},
        p \in BOOLEAN, l \in BOOLEAN}

NoCheck ==
    [call |-> 0, op |-> "none", arg |-> <<>>, raised |-> FALSE, decision |-> "",
     reason |-> "", is_valid |-> FALSE]

\* One call on the enforcer: its outcome is kept in checked, its audit
\* entries go to the audit log.
ScopeCall(op, arg, o) ==
    /\ checked' = [call |-> checked.call + 1, op |-> op, arg |-> arg,
                   raised |-> o.raised, decision |-> o.decision,
                   reason |-> o.reason, is_valid |-> o.is_valid]
    /\ _audit_log' = log_decisions(_audit_log, o.entries)
    /\ UNCHANGED <<config, outsideScope>>

\* enforcer.check_target(target), target a string.
CheckTarget(v) ==
    /\ checked.call < MaxChecks
    /\ ScopeCall("check_target", v, check_target_outcome(config, v))

\* enforcer.validate_tool_call(tool_name, arguments)
ValidateToolCall(arguments) ==
    /\ checked.call < MaxChecks
    /\ ScopeCall("validate_tool_call", arguments,
                 validate_tool_call_outcome(config, arguments,
                     targets_to_check(arguments, target_keys),
                     first_raising(targets_to_check(arguments, target_keys), 1)))

(***************************************************************************)
(* The BudgetEnforcer called directly: any sequence of its methods on the  *)
(* enforcer of a mission, at any time.                                     *)
(***************************************************************************)
NoCall ==
    [op |-> "none", arg |-> <<>>, ok |-> TRUE, reason |-> <<>>, violations |-> <<>>]

Called(op, ok, reason, violations) ==
    [op |-> op, arg |-> <<>>, ok |-> ok, reason |-> reason,
     violations |-> violations]

\* BudgetEnforcer.record_error at wall-clock time t.
record_error(st, t) ==
    [st EXCEPT !.errors_encountered = @ + 1,
               !.consecutive_errors = @ + 1,
               !.last_action_at = t]

\* The violations _check_for_loops notifies on the state record_action leaves.
loop_violations(st, b) ==
    IF loop_detected(st, b) THEN <<"loop_detected">> ELSE <<>>

\* enforcer.check_can_proceed()
CheckCanProceed ==
    /\ called' = Called("check_can_proceed",
                        check_can_proceed(state, budget, now).ok,
                        check_can_proceed(state, budget, now).reason, <<>>)
    /\ UNCHANGED <<state, now, outsideBudget>>

\* enforcer.record_action(action_type, target, parameters, cost_usd)
RecordedAction(a, cost) ==
    /\ state' = record_action(state, budget, a.tool_name, a.target,
                              a.arguments, cost, now)
    /\ called' = Called("record_action", TRUE, <<>>,
                        loop_violations(state', budget))
    /\ UNCHANGED <<now, outsideBudget>>

RecordAction(a, cost) ==
    /\ state.steps_taken < MaxActions
    /\ RecordedAction(a, cost)

\* enforcer.record_error(error_type, details)
RecordError ==
    /\ state.errors_encountered < MaxConsecutiveErrors
    /\ state' = record_error(state, now)
    /\ called' = Called("record_error", TRUE, <<>>, <<>>)
    /\ UNCHANGED <<now, outsideBudget>>

S_www_padded == <<" ", "WWW", ".", "example", ".", "com", "/", "/", " ">>

RetryTargets == {S_www, S_www_padded, S_evil}

\* enforcer.record_retry(target)
RecordRetry(target) ==
    /\ state' = record_retry(state, budget, target).st
    /\ called' = [op |-> "record_retry", arg |-> target,
                  ok |-> record_retry(state, budget, target).ok,
                  reason |-> <<>>, violations |-> <<>>]
    /\ UNCHANGED <<now, outsideBudget>>

\* enforcer.pause(reason)
BudgetPause ==
    /\ state' = budget_pause(state)
    /\ called' = Called("pause", TRUE, <<>>, <<>>)
    /\ UNCHANGED <<now, outsideBudget>>

\* enforcer.resume()
BudgetResume ==
    /\ state' = budget_resume(state)
    /\ called' = Called("resume", TRUE, <<>>, <<>>)
    /\ UNCHANGED <<now, outsideBudget>>

\* enforcer.kill(reason)
BudgetKill(reason) ==
    /\ ~state.is_killed
    /\ state' = budget_kill(state, reason)
    /\ called' = Called("kill", TRUE, <<>>, <<"manual_kill">>)
    /\ UNCHANGED <<now, outsideBudget>>

\* A minute passes between two calls.
BudgetTick ==
    /\ now < MaxTime
    /\ now' = now + 1
    /\ called' = NoCall
    /\ UNCHANGED <<state, outsideBudget>>

\* The same action again and again: record_action calls only.
TC_scan_again ==
    [tool_name |-> "nuclei",
     arguments |-> <<StrArg("target", S_www), StrArg("timestamp", <<"1">>)>>,
     target |-> S_www]

LoopActions == {TC_scan, TC_scan_again, TC_admin}

RepeatAction(a) ==
    /\ state.steps_taken < MaxRepeats
    /\ RecordedAction(a, 0)

(***************************************************************************)
(* GuardrailValidator and CognitiveEngine.think (worker_legacy/ai_engine). *)
(* A raw LLM output is a sequence of lines: markdown fence lines and text  *)
(* lines.  A text line stands for the whole JSON text: json says whether   *)
(* json.loads accepts it, required whether the three required string       *)
(* fields are there, tool_call what the "tool_call" key holds.             *)
(***************************************************************************)
max_retries == 3

installed_tools == {"nuclei", "httpx"}

\* tool_schemas: the required parameters of the tools that have a schema.
tool_schemas == [t \in {"nuclei"} |-> [required |-> {"target"}]]

\* Argument texts in which one of DANGEROUS_PATTERNS is found.
DANGEROUS_PATTERNS == {"rm -rf /", "x | sh"}

Fence == [kind |-> "fence", closing |-> FALSE]
ClosingFence == [kind |-> "fence", closing |-> TRUE]

\* "tool_call": null, a JSON string, or an object.  An object has a "name"
\* (missing, null or a string) and "arguments" (absent or an object with
\* the given keys and the given text in its values).
NullCall == [type |-> "null"]
StringCall == [type |-> "str"]
Name(kind, val) == [kind |-> kind, val |-> val]
NoArguments == [present |-> FALSE, keys |-> {}, text |-> ""]
Arguments(keys, text) == [present |-> TRUE, keys |-> keys, text |-> text]
ToolCallObject(name, arguments) == [type |-> "dict", name |-> name, arguments |-> arguments]

Text(json, required, tool_call) ==
    [kind |-> "text", json |-> json, required |-> required, tool_call |-> tool_call]

\* GuardrailValidator._clean_output: a leading fence line and a closing
\* fence line at the end are dropped.
_clean_output(raw) ==
    IF raw # <<>> /\ raw[1].kind = "fence"
    THEN IF Len(raw) > 1 /\ raw[Len(raw)] = ClosingFence
         THEN SubSeq(raw, 2, Len(raw) - 1)
         ELSE Tail(raw)
    ELSE raw

\* json.loads accepts the cleaned text.
json_loads_ok(cleaned) ==
    Len(cleaned) = 1 /\ cleaned[1].kind = "text" /\ cleaned[1].json

\* AgentOutput.model_validate: the required fields, and tool_call a dict or
\* None.
model_validate_ok(data) == data.required /\ data.tool_call.type # "str"

AgentOutput(tool_call, is_complete, status_update) ==
    [tool_call |-> tool_call, is_complete |-> is_complete,
     status_update |-> status_update]

\* "if output.tool_call": a dict that is not empty.
has_tool_call(parsed) ==
    /\ parsed.tool_call.type = "dict"
    /\ (parsed.tool_call.name.kind # "missing" \/ parsed.tool_call.arguments.present)

\* tool_call.get("name") is truthy.
has_tool_name(tool_call) == tool_call.name.kind = "str" /\ tool_call.name.val # ""

\* GuardrailValidator._validate_arguments: the required arguments.
_validate_arguments(tool_name, args) ==
    IF tool_schemas[tool_name].required \subseteq args.keys
    THEN [ok |-> TRUE, error |-> ""]
    ELSE [ok |-> FALSE, error |-> "Missing required argument"]

\* GuardrailValidator._check_safety
_check_safety(parsed) ==
    IF ~has_tool_call(parsed) THEN ""
    ELSE IF parsed.tool_call.arguments.text \in DANGEROUS_PATTERNS
    THEN "Safety violation: Dangerous pattern detected in arguments"
    ELSE ""

Rejected(error) == [is_valid |-> FALSE, output |-> AgentOutput(NullCall, FALSE, ""), error |-> error]

\* Steps 4 to 6 of validate, on the parsed output.
validate_output(parsed) ==
    IF /\ has_tool_call(parsed) /\ has_tool_name(parsed.tool_call)
       /\ parsed.tool_call.name.val \notin installed_tools
    THEN Rejected("Hallucination detected")
    ELSE IF /\ has_tool_call(parsed)
            /\ parsed.tool_call.name.kind = "str"
            /\ parsed.tool_call.name.val \in DOMAIN tool_schemas
            /\ ~_validate_arguments(parsed.tool_call.name.val,
                                    parsed.tool_call.arguments).ok
    THEN Rejected(_validate_arguments(parsed.tool_call.name.val,
                                      parsed.tool_call.arguments).error)
    ELSE IF _check_safety(parsed) # ""
    THEN Rejected(_check_safety(parsed))
    ELSE [is_valid |-> TRUE, output |-> parsed, error |-> ""]

\* GuardrailValidator.validate
validate(raw) ==
    IF ~json_loads_ok(_clean_output(raw)) THEN Rejected("Invalid JSON")
    ELSE IF ~model_validate_ok(_clean_output(raw)[1])
    THEN Rejected("Schema validation failed")
    ELSE validate_output(AgentOutput(_clean_output(raw)[1].tool_call,
                                     _clean_output(raw)[1].tool_call.type = "null",
                                     "llm"))

\* The LLM outputs of the model: malformed text, a text without the required
\* fields, a final answer (bare and fenced), and tool calls of every kind.
ScanArgs == Arguments({"target"}, "www.example.com")

RawOutputs ==
    {<<Text(FALSE, TRUE, NullCall)>>,
     <<Text(TRUE, FALSE, NullCall)>>,
     <<Text(TRUE, TRUE, StringCall)>>,
     <<Fence, Text(TRUE, TRUE, NullCall), ClosingFence>>,
     <<Text(TRUE, TRUE, ToolCallObject(Name("str", "nuclei"), ScanArgs))>>,
     <<Text(TRUE, TRUE, ToolCallObject(Name("str", "httpx"), NoArguments))>>,
     <<Text(TRUE, TRUE, ToolCallObject(Name("str", "evilscan"), ScanArgs))>>,
     <<Text(TRUE, TRUE, ToolCallObject(Name("str", "evilscan"),
                                       Arguments({"target"}, "rm -rf /")))>>,
     <<Text(TRUE, TRUE, ToolCallObject(Name("str", "nuclei"),
                                       Arguments({}, "rm -rf /")))>>,
     <<Text(TRUE, TRUE, ToolCallObject(Name("str", "nuclei"),
                                       Arguments({"target"}, "x | sh")))>>,
     <<Text(TRUE, TRUE, ToolCallObject(Name("missing", ""), ScanArgs))>>,
     <<Text(TRUE, TRUE, ToolCallObject(Name("null", ""), ScanArgs))>>}

NoValidation == [raw |-> <<>>, is_valid |-> FALSE, output |-> AgentOutput(NullCall, FALSE, ""), error |-> ""]

NoStep == [returned |-> FALSE, step |-> AgentOutput(NullCall, FALSE, "")]

\* think before it is called: no attempt made, the prompt without feedback.
EngineIdle ==
    [pc |-> "idle", attempt |-> 0, llm_calls |-> 0, system_prompt |-> <<>>,
     last_error |-> "", last |-> NoValidation, result |-> NoStep, stored |-> <<>>]

\* The step think returns when no attempt gave a valid output.
Fallback ==
    AgentOutput(NullCall, TRUE,
                "Agent encountered an error and needs human intervention")

\* The end of one pass of "for attempt in range(max_retries)": the next
\* pass, or the fallback return after the last one.
next_attempt(e) ==
    IF e.attempt + 1 < max_retries
    THEN [e EXCEPT !.attempt = e.attempt + 1]
    ELSE [e EXCEPT !.attempt = e.attempt + 1, !.pc = "returned",
                   !.result = [returned |-> TRUE, step |-> Fallback]]

\* One pass in which llm.invoke answered raw and validate gave v.
attempt_with(e, raw, v, store_raises) ==
    IF v.is_valid
    THEN IF store_raises
         THEN next_attempt([e EXCEPT !.last_error = "store error"])
         ELSE [e EXCEPT !.stored = Append(e.stored, v.output),
                        !.pc = "returned",
                        !.result = [returned |-> TRUE, step |-> v.output]]
    ELSE next_attempt([e EXCEPT !.last_error = v.error,
                                !.system_prompt =
                                    IF e.attempt < max_retries - 1
                                    THEN Append(e.system_prompt, v.error)
                                    ELSE e.system_prompt])

\* think is called: the prompt is built and the loop entered.
Think ==
    /\ engine.pc = "idle"
    /\ engine' = [engine EXCEPT !.pc = "loop"]
    /\ UNCHANGED outsideEngine

\* llm.invoke returns raw; validate; _store_step raises or not.
LlmResponds(raw, store_raises) ==
    /\ engine.pc = "loop"
    /\ engine' = attempt_with([engine EXCEPT !.llm_calls = engine.llm_calls + 1,
                                             !.last = [raw |-> raw] @@ validate(raw)],
                              raw, validate(raw), store_raises)
    /\ UNCHANGED outsideEngine

\* llm.invoke raises.
LlmRaises ==
    /\ engine.pc = "loop"
    /\ engine' = next_attempt([engine EXCEPT !.llm_calls = engine.llm_calls + 1,
                                             !.last = [NoValidation EXCEPT !.error = "llm error"],
                                             !.last_error = "llm error"])
    /\ UNCHANGED outsideEngine

(***************************************************************************)
(* AutoDocumenter.build_command (worker/tools/auto_documenter).  An        *)
(* argument value is a bool (val holds str(value)), an int (val holds      *)
(* str(value)), a string or a list of strings; argv is a sequence of       *)
(* strings.                                                                *)
(***************************************************************************)
MaxArgs == 3

ToolParameter(name, flag, param_type, required) ==
    [name |-> name, flag |-> <<flag>>, param_type |-> param_type, required |-> required]

\* BUILTIN_DEFINITIONS["nuclei"], which execute_tool puts in the cache.
definitions_cache ==
    [t \in {"nuclei"} |->
        [binary_path |-> <<"/usr/local/bin/nuclei">>,
         parameters |->
            <<ToolParameter("target", "-u", "url", TRUE),
              ToolParameter("targets_file", "-l", "file", FALSE),
              ToolParameter("templates", "-t", "string", FALSE),
              ToolParameter("tags", "-tags", "array", FALSE),
              ToolParameter("severity", "-severity", "array", FALSE),
              ToolParameter("rate_limit", "-rl", "integer", FALSE),
              ToolParameter("concurrency", "-c", "integer", FALSE),
              ToolParameter("output", "-o", "file", FALSE),
              ToolParameter("json_output", "-json", "boolean", FALSE),
              ToolParameter("silent", "-silent", "boolean", FALSE)>>]]

BoolArg(k, b) ==
    [key |-> k, kind |-> "bool", val |-> <<IF b THEN <<"True">> ELSE <<"False">>>>]

IntArg(k, digits) == [key |-> k, kind |-> "int", val |-> <<<<digits>>>>]

\* sep.join(values)
RECURSIVE join(_, _)
join(values, sep) ==
    IF values = <<>> THEN <<>>
    ELSE IF Len(values) = 1 THEN values[1]
    ELSE values[1] \o <<sep>> \o join(Tail(values), sep)

\* repr of the strings of a list, for str(list).
RECURSIVE quoted(_)
quoted(values) ==
    IF values = <<>> THEN <<>>
    ELSE <<<<"'">> \o Head(values) \o <<"'">>>> \o quoted(Tail(values))

\* str(value)
py_str(arg) ==
    IF arg.kind = "list" THEN <<"[">> \o join(quoted(arg.val), ", ") \o <<"]">>
    ELSE arg.val[1]

\* bool(value)
truthy(arg) ==
    CASE arg.kind = "bool" -> arg.val[1] = <<"True">>
      [] arg.kind = "list" -> arg.val # <<>>
      [] arg.kind = "int" -> arg.val[1] # <<"0">>
      [] OTHER -> arg.val[1] # <<>>

\* param_map.get(arg_name): the position of the parameter, 0 for None.
param_map(parameters, arg_name) ==
    IF \E i \in 1..Len(parameters) : parameters[i].name = arg_name
    THEN CHOOSE i \in 1..Len(parameters) : parameters[i].name = arg_name
    ELSE 0

\* A loop body that appends the flag of a boolean whatever its value.
command_part_any_boolean(param, arg) ==
    IF param.param_type = "boolean" THEN <<param.flag>>
    ELSE IF param.param_type = "array" /\ arg.kind = "list"
    THEN <<param.flag, join(arg.val, ",")>>
    ELSE <<param.flag, py_str(arg)>>

\* The body of "for arg_name, value in arguments.items()" for a declared
\* parameter.
command_part(param, arg) ==
    IF param.param_type = "boolean"
    THEN IF truthy(arg) THEN <<param.flag>> ELSE <<>>
    ELSE IF param.param_type = "array" /\ arg.kind = "list"
    THEN <<param.flag, join(arg.val, ",")>>
    ELSE <<param.flag, py_str(arg)>>

RECURSIVE command_parts(_, _)
command_parts(parameters, arguments) ==
    IF arguments = <<>> THEN <<>>
    ELSE (IF param_map(parameters, Head(arguments).key) = 0 THEN <<>>
          ELSE command_part(parameters[param_map(parameters, Head(arguments).key)],
                            Head(arguments)))
         \o command_parts(parameters, Tail(arguments))

\* AutoDocumenter.build_command: the argv, or the ValueError for a tool
\* without a cached definition.
build_command(tool_name, arguments) ==
    IF tool_name \notin DOMAIN definitions_cache
    THEN [raised |-> TRUE, cmd |-> <<>>]
    ELSE [raised |-> FALSE,
          cmd |-> <<definitions_cache[tool_name].binary_path>>
                  \o command_parts(definitions_cache[tool_name].parameters, arguments)]

\* The argument values of the model, and the argument maps built from them:
\* up to MaxArgs entries with distinct keys, in every insertion order.
CommandArgs ==
    {StrArg("target", S_www),
     [key |-> "tags", kind |-> "list", val |-> <<<<"xss">>, <<"sqli">>>>],
     StrArg("tags", <<"cve">>),
     BoolArg("json_output", TRUE), BoolArg("json_output", FALSE),
     BoolArg("verbose", TRUE), IntArg("rate_limit", "150"),
     StrArg("proxy", S_evil)}

ArgumentMaps ==
    UNION {{a \in [1..n -> CommandArgs] :
               \A i, j \in 1..n : i # j => a[i].key # a[j].key} : n \in 0..MaxArgs}

NoCommand == [tool_name |-> "", arguments |-> <<>>, raised |-> FALSE, cmd |-> <<>>]

\* A call of build_command on a fresh AutoDocumenter.
BuildCommand(tool_name, arguments) ==
    /\ command = NoCommand
    /\ command' = [tool_name |-> tool_name, arguments |-> arguments]
                      @@ build_command(tool_name, arguments)
    /\ UNCHANGED outsideCommand

(***************************************************************************)
(* The websocket endpoint (api/v1/chat.websocket_endpoint) on the          *)
(* ConnectionManager, and ConnectionManager.broadcast taken send by send.  *)
(* A session id is chosen by the client, so several endpoint coroutines    *)
(* may run for one id; active_connections holds the latest websocket.      *)
(***************************************************************************)
MaxEndpoints == 2
MaxFrames == 2

NoDelivery == [busy |-> FALSE, frame |-> Frame("", Payload("", "", 0)),
               order |-> <<>>, pos |-> 0, snapshot |-> {}, disconnected |-> {},
               stayed |-> {}]

\* delivery.stayed records the sessions that have been connected ever since
\* the broadcast in progress began.
leaves(x) == [delivery EXCEPT !.stayed = @ \ {x}]

\* The missions API before a mission is created.
ApiMissions == {"a", "b"}
NoRecord == "none"
NoExecution == [status |-> "NONE", cancel_requested |-> FALSE]
NoResponse == [op |-> "none", code |-> 0, status |-> ""]

ApiIdle ==
    /\ endpoints = [x \in Sessions |-> 0]
    /\ delivery = NoDelivery
    /\ missions_db = [id \in ApiMissions |-> NoRecord]
    /\ temporal = [id \in ApiMissions |-> NoExecution]
    /\ response = NoResponse

\* websocket_endpoint is entered: manager.connect.
EndpointConnect(x) ==
    /\ endpoints[x] < MaxEndpoints
    /\ endpoints' = [endpoints EXCEPT ![x] = @ + 1]
    /\ active_connections' = active_connections \cup {x}
    /\ UNCHANGED <<subscriptions, inbox, received, published, delivery, outsideApi>>

\* client:subscribe_logs or client:unsubscribe_logs in the loop of an
\* endpoint: the change of the subscriber set, then the acknowledgement
\* through send_to_session, whose send may fail.
EndpointRequest(x, channel, subscribing, fails) ==
    /\ endpoints[x] > 0
    /\ Len(received[x]) < MaxFrames
    /\ LET subs == [subscriptions EXCEPT ![channel] =
                        IF subscribing THEN @ \cup {x} ELSE @ \ {x}]
           ack == [type |-> IF subscribing THEN "server:subscribed"
                            ELSE "server:unsubscribed",
                   data |-> Payload("", "", 0)]
       IN  IF x \notin active_connections
           THEN subscriptions' = subs
                /\ UNCHANGED <<received, active_connections, delivery>>
           ELSE IF fails
           THEN /\ active_connections' = active_connections \ {x}
                /\ subscriptions' = without(subs, {x})
                /\ received' = received
                /\ delivery' = leaves(x)
           ELSE /\ received' = [received EXCEPT ![x] = Append(@, ack)]
                /\ subscriptions' = subs
                /\ UNCHANGED <<active_connections, delivery>>
    /\ UNCHANGED <<inbox, published, endpoints, outsideApi>>

\* WebSocketDisconnect in an endpoint: manager.disconnect.
EndpointDisconnect(x) ==
    /\ endpoints[x] > 0
    /\ endpoints' = [endpoints EXCEPT ![x] = @ - 1]
    /\ active_connections' = active_connections \ {x}
    /\ subscriptions' = without(subscriptions, {x})
    /\ delivery' = leaves(x)
    /\ UNCHANGED <<inbox, received, published, outsideApi>>

\* A message for every client is published (publish_plan_proposal).
PublishToAll ==
    /\ redis_publish("manager", <<"agent_events">>,
                     Payload("", "server:plan_proposal", 0))
    /\ UNCHANGED <<active_connections, subscriptions, received, apiVars, outsideApi>>

\* The state in which the loop of broadcast ends: each session whose send
\* failed is disconnected.
broadcast_cleanup(d) ==
    /\ active_connections' = active_connections \ d.disconnected
    /\ subscriptions' = without(subscriptions, d.disconnected)
    /\ delivery' = NoDelivery

\* The listener takes a message for every client and broadcast starts to
\* iterate active_connections.items(): it awaits the first send, or ends at
\* once when nobody is connected.
BroadcastBegin(order) ==
    /\ ~delivery.busy
    /\ inbox # <<>>
    /\ route(Head(inbox).channel, Head(inbox).data).to = "all"
    /\ inbox' = Tail(inbox)
    /\ delivery' = IF order = <<>> THEN NoDelivery
                   ELSE [busy |-> TRUE,
                         frame |-> route(Head(inbox).channel, Head(inbox).data).frame,
                         order |-> order, pos |-> 1,
                         snapshot |-> active_connections, disconnected |-> {},
                         stayed |-> active_connections]
    /\ UNCHANGED <<active_connections, subscriptions, received, published,
                   endpoints, outsideApi>>

\* The awaited send_json of broadcast returns or raises, and the loop asks
\* the dict iterator for the next item.  The iterator raises RuntimeError
\* when the dict changed size since the loop began, which ends broadcast
\* without its cleanup; when the dict has the size but not the keys it
\* began with, the iteration may raise or go on (gives_up).
SendReturns(fails, gives_up) ==
    /\ delivery.busy
    /\ received' = IF fails THEN received
                   ELSE [received EXCEPT ![delivery.order[delivery.pos]] =
                            Append(@, delivery.frame)]
    /\ LET d == [delivery EXCEPT !.disconnected =
                     IF fails THEN @ \cup {delivery.order[delivery.pos]} ELSE @]
       IN  IF \/ Cardinality(active_connections) # Cardinality(delivery.snapshot)
              \/ active_connections # delivery.snapshot /\ gives_up
           THEN delivery' = NoDelivery /\ UNCHANGED <<active_connections, subscriptions>>
           ELSE IF delivery.pos = Len(delivery.order)
           THEN broadcast_cleanup(d)
           ELSE /\ delivery' = [d EXCEPT !.pos = @ + 1]
                /\ UNCHANGED <<active_connections, subscriptions>>
    /\ UNCHANGED <<inbox, published, endpoints, outsideApi>>

(***************************************************************************)
(* The missions API (api/v1/missions.py) over TemporalService.             *)
(* missions_db[id] is the "status" of the record, "none" while there is    *)
(* no record.  What the Temporal server does with a request is not the  *)
(* repository's code: a request on a closed execution raises, a request on *)
(* a running one may raise (server unreachable) or take effect.            *)
(***************************************************************************)
Closed == {"COMPLETED", "FAILED", "CANCELED", "TERMINATED", "TIMED_OUT"}

Response(op, code, status) == [op |-> op, code |-> code, status |-> status]

\* "temporal_status_map.get(workflow_status.get('status'), mission['status'])"
temporal_status_map(name, default) ==
    CASE name = "RUNNING" -> "running"
      [] name = "COMPLETED" -> "completed"
      [] name = "FAILED" -> "failed"
      [] name = "CANCELED" -> "cancelled"
      [] name = "TERMINATED" -> "terminated"
      [] OTHER -> default

\* POST /missions: start_scan_workflow, then the record with status running.
create_mission(id, raises) ==
    /\ missions_db[id] = NoRecord
    /\ temporal[id].status = "NONE"
    /\ IF raises
       THEN /\ response' = Response("create_mission", 500, "")
            /\ UNCHANGED <<missions_db, temporal>>
       ELSE /\ temporal' = [temporal EXCEPT
                               ![id] = [status |-> "RUNNING", cancel_requested |-> FALSE]]
            /\ missions_db' = [missions_db EXCEPT ![id] = "running"]
            /\ response' = Response("create_mission", 200, "running")
    /\ UNCHANGED outsideRecord

\* The workflow execution closes: it completes, fails or times out, or it
\* ends as cancelled when a cancellation was requested.
WorkflowCloses(id, status) ==
    /\ temporal[id].status = "RUNNING"
    /\ status = "CANCELED" => temporal[id].cancel_requested
    /\ temporal' = [temporal EXCEPT ![id].status = status]
    /\ UNCHANGED <<missions_db, response, outsideRecord>>

\* TemporalService.get_workflow_status: the name of the execution's status,
\* "UNKNOWN" when describe raises.
get_workflow_status(id, raises) == IF raises THEN "UNKNOWN" ELSE temporal[id].status

\* GET /missions/{mission_id}
get_mission_status(id, raises) ==
    /\ missions_db[id] # NoRecord
    /\ missions_db' = [missions_db EXCEPT
           ![id] = temporal_status_map(get_workflow_status(id, raises), @)]
    /\ response' = Response("get_mission_status", 200, missions_db'[id])
    /\ UNCHANGED <<temporal, outsideRecord>>

\* POST /missions/{mission_id}/cancel: handle.cancel() requests the
\* cancellation of a running execution and returns.
cancel_mission(id, raises) ==
    /\ missions_db[id] # NoRecord
    /\ IF raises \/ temporal[id].status \in Closed
       THEN /\ response' = Response("cancel_mission", 500, "")
            /\ UNCHANGED <<missions_db, temporal>>
       ELSE /\ temporal' = [temporal EXCEPT ![id].cancel_requested = TRUE]
            /\ missions_db' = [missions_db EXCEPT ![id] = "cancelled"]
            /\ response' = Response("cancel_mission", 200, "cancelled")
    /\ UNCHANGED outsideRecord

\* POST /missions/{mission_id}/terminate: handle.terminate() closes a
\* running execution at once.
terminate_mission(id, raises) ==
    /\ missions_db[id] # NoRecord
    /\ IF raises \/ temporal[id].status \in Closed
       THEN /\ response' = Response("terminate_mission", 500, "")
            /\ UNCHANGED <<missions_db, temporal>>
       ELSE /\ temporal' = [temporal EXCEPT ![id].status = "TERMINATED"]
            /\ missions_db' = [missions_db EXCEPT ![id] = "terminated"]
            /\ response' = Response("terminate_mission", 200, "terminated")
    /\ UNCHANGED outsideRecord

\* POST /missions/{mission_id}/signal
signal_mission(id, raises) ==
    /\ missions_db[id] # NoRecord
    /\ response' = IF raises \/ temporal[id].status \in Closed
                   THEN Response("signal_mission", 500, "")
                   ELSE Response("signal_mission", 200, "signaled")
    /\ UNCHANGED <<missions_db, temporal, outsideRecord>>

(***************************************************************************)
(* Specification.                                                          *)
(***************************************************************************)
\* A workflow instance before run starts.
MissionFresh ==
    /\ pc = "start"
    /\ attempt = 1
    /\ idx = 0
    /\ pending = 0
    /\ enforcers = FALSE
    /\ _plan = [set |-> FALSE, steps |-> <<>>]
    /\ _approved_steps = {}
    /\ _findings = <<>>
    /\ _is_paused = FALSE
    /\ _is_killed = FALSE
    /\ _kill_reason = <<>>
    /\ state = BudgetState(0)
    /\ audit_log = <<>>
    /\ now = 0
    /\ start_time = 0
    /\ output = NoOutput
    /\ query_result = NoQuery
    /\ n_signals = 0
    /\ invoked = <<>>
    /\ started = FALSE
    /\ approved_at_start = {}
    /\ approvals_before = <<>>
    /\ n_approve_after = 0
    /\ after_kill = {}
    /\ emitted = <<>>

MissionInit == input \in ScanInputs /\ MissionFresh

FabricInit ==
    /\ active_connections = {}
    /\ subscriptions = [c \in SessionChannels |-> {}]
    /\ inbox = <<>>
    /\ received = [x \in Sessions |-> <<>>]
    /\ published = <<>>

\* No enforcer is used on its own: ScopeConfig() and a fresh ScopeEnforcer.
ScopeIdle ==
    /\ config = ScopeConfig(<<>>, <<>>, <<>>, <<>>, FALSE, FALSE)
    /\ _audit_log = <<>>
    /\ checked = NoCheck

Init == MissionInit /\ FabricInit /\ ScopeIdle /\ called = NoCall /\ engine = EngineIdle /\ command = NoCommand /\ ApiIdle

Next ==
    \/ RunStart
    \/ \E p \in Plans : PlanReady(p)
    \/ EmitPlanDone
    \/ ApprovalWake
    \/ \E cost \in ToolCosts, nf \in 0..MaxFindings : ToolDone(cost, nf)
    \/ NotifyDone
    \/ EmitDone
    \/ ActivityFails
    \/ \E X \in SUBSET StepIds : ApprovePlanSignal(X)
    \/ PauseSignal
    \/ ResumeSignal
    \/ \E r \in KillReasons : KillSignal(r)
    \/ GetStatusQuery
    \/ GetFindingsQuery
    \/ Tick

Spec == Init /\ [][Next]_vars

(***************************************************************************)
(* Properties of the mission workflow.                                     *)
(***************************************************************************)
\* The targets validate_tool_call extracts from the arguments of a dispatch.
DispatchTargets(e) == targets_to_check(e.tool.arguments, target_keys)

\* C1: every dispatched execute_tool has at least one targetable argument,
\* every extracted target is ALLOWED by check_target, and so is the target
\* field of the ToolCall itself.
C1_DispatchedTargetsAllowed ==
    \A k \in 1..Len(invoked) :
        LET ts == DispatchTargets(invoked[k])
        IN  /\ ts # <<>>
            /\ \A i \in 1..Len(ts) :
                   check_target(scope_config, ts[i]).decision = ALLOWED
            /\ check_target(scope_config, invoked[k].tool.target).decision = ALLOWED

\* C2: without auto-pilot every execute_tool dispatch follows an approve_plan
\* signal and is of a step whose id is in the approved set of that moment.
C2_NoToolBeforeApproval ==
    ~input.auto_pilot =>
        \A k \in 1..Len(invoked) :
            /\ invoked[k].approvals > 0
            /\ invoked[k].step_id \in invoked[k].approved

\* A mission without auto-pilot has completed having run the one step that
\* was approved and skipped an in-scope step that was not.
C2_Witness ==
    /\ ~input.auto_pilot
    /\ pc = "done"
    /\ output.status = "completed"
    /\ Len(invoked) = 1
    /\ \E i \in 1..Len(_plan.steps) :
           /\ _plan.steps[i].tool = TC_scan
           /\ _plan.steps[i].id \notin _approved_steps
           /\ \A k \in 1..Len(invoked) : invoked[k].step_id # _plan.steps[i].id

\* C3: a mission that received kill(r) before it returned ends with status
\* killed and error_message r (the runs in which an activity raised aside).
C3_KilledMissionEndsKilled ==
    (pc = "done" /\ _is_killed /\ output.error_message # ActivityError) =>
        (output.status = "killed" /\ output.error_message = _kill_reason)

\* C4: no execute_tool is dispatched once kill has been delivered, and in the
\* step loop check_can_proceed stays false after a kill, whatever resume or
\* approve_plan signals follow it.
C4_NoDispatchAfterKill ==
    /\ \A k \in 1..Len(invoked) : ~invoked[k].killed
    /\ (started /\ _is_killed) => ~check_can_proceed(state, budget, now).ok

\* A mission killed in its step loop received a resume or an approve_plan
\* after the kill and returned with an approved step left undispatched.
C4_Witness ==
    /\ started
    /\ _is_killed
    /\ after_kill \cap {"resume", "approve_plan"} # {}
    /\ pc = "done"
    /\ \E i \in 1..Len(_plan.steps) :
           /\ _plan.steps[i].id \in _approved_steps
           /\ _plan.steps[i].tool = TC_scan
           /\ \A k \in 1..Len(invoked) : invoked[k].step_id # _plan.steps[i].id

\* C5: steps_taken never exceeds max_steps, in the budget state and in the
\* ScanOutput returned.
C5_StepsWithinCap ==
    /\ state.steps_taken <= input.max_steps
    /\ output.steps_taken <= input.max_steps

\* A mission stopped on the step cap with an approved step of its plan left.
C5_Witness ==
    /\ pc = "done"
    /\ output.status = "exhausted"
    /\ output.error_message = <<"Step budget exhausted">>
    /\ output.steps_taken = input.max_steps
    /\ Len(invoked) < Len(_plan.steps)

\* C6: the ScanOutput of a mission reports a cost_usd of at most max_cost_usd.
C6_CostWithinCap ==
    pc = "done" => output.cost_usd <= input.max_cost_usd

\* C7: no mission returns because it is paused.
C7_PauseNotTerminal ==
    pc = "done" => output.error_message # PausedReason

\* The approved set the step loop starts with is the payload of the last
\* approve_plan delivered before it.
LastApprovalWins ==
    /\ (~input.auto_pilot /\ approvals_before # <<>> /\ ~started)
           => _approved_steps = approvals_before[Len(approvals_before)]
    /\ (~input.auto_pilot /\ started)
           => /\ approvals_before # <<>>
              /\ approved_at_start = approvals_before[Len(approvals_before)]

\* An approve_plan delivered before the step loop changes the approved set
\* and nothing else of the workflow.
ApprovalFrame ==
    (~started /\ Len(approvals_before') > Len(approvals_before)) =>
        UNCHANGED <<componentVars, input, pc, attempt, idx, pending, enforcers, _plan,
                    _findings, _is_paused, _is_killed, _kill_reason, state,
                    audit_log, start_time, output>>

\* C8: before the step loop approve_plan(X) then approve_plan(Y) leaves the
\* workflow as approve_plan(Y) alone does: the approved set is Y, nothing else
\* of the workflow state has changed, and the loop starts from Y.
C8_LastWriteWins == []LastApprovalWins /\ [][ApprovalFrame]_vars

\* Two approve_plan signals with different payloads came before the loop,
\* which ran a step.
C8_Witness ==
    /\ ~input.auto_pilot
    /\ started
    /\ Len(approvals_before) = 2
    /\ approvals_before[1] # approvals_before[2]
    /\ approvals_before[1] \ approvals_before[2] # {}
    /\ Len(invoked) >= 1

\* C9: once the step loop has started the approved set is the one it started
\* with, and only steps of that set are dispatched.
C9_LateApprovalIgnored ==
    started =>
        /\ _approved_steps = approved_at_start
        /\ \A k \in 1..Len(invoked) : invoked[k].step_id \in approved_at_start

\* A step that serves a query leaves the program state as it was.
QueryFrame ==
    query_result'.query \in {"get_status", "get_findings"} =>
        UNCHANGED <<componentVars, input, pc, attempt, idx, pending, enforcers, _plan,
                    _approved_steps, _findings, _is_paused, _is_killed,
                    _kill_reason, state, audit_log, start_time, output>>

\* C10: get_status and get_findings change neither the plan, the approved
\* set, the findings, the pause and kill flags, the budget state nor anything
\* else run reads.
C10_QueriesDoNotMutate == [][QueryFrame]_vars

\* get_status answered while a tool was running, after a step was recorded
\* and with the clock past the last recorded action.
C10_Witness ==
    /\ query_result.query = "get_status"
    /\ pc = "tool"
    /\ state.steps_taken >= 1
    /\ now > state.last_action_at

\* The mission that stays idle while a component runs on its own.
MissionIdle == MissionInit /\ input = ScanInput(FALSE, TRUE, 5, 60)

EventInit == MissionIdle /\ FabricInit /\ ScopeIdle /\ called = NoCall /\ engine = EngineIdle /\ command = NoCommand /\ ApiIdle

EventNext ==
    \/ \E x \in Sessions : connect(x)
    \/ \E x \in Sessions : disconnect(x)
    \/ \E x \in Sessions, c \in SessionChannels : subscribe_session(x, c)
    \/ \E x \in Sessions, c \in SessionChannels : unsubscribe_session(x, c)
    \/ \E m \in MissionIds, e \in WorkflowEvents : WorkflowEmit(m, e)
    \/ \E m \in ManagerPublishes : ManagerPublish(m)
    \/ \E failing \in SUBSET Sessions : HandleRedisMessage(failing)

EventSpec == EventInit /\ [][EventNext]_vars

\* C14: every event a workflow published is on a channel the manager's
\* listener receives and routes to the sessions.
C14_WorkflowEventsForwarded ==
    \A i \in 1..Len(published) :
        published[i].source = "workflow" =>
            /\ listener_receives(published[i].channel)
            /\ route(published[i].channel, published[i].data).to # "none"

IsPrefix(a, b) == Len(a) <= Len(b) /\ SubSeq(b, 1, Len(a)) = a

\* What get_findings answered is still the head of the findings list, and
\* the ScanOutput returned carries the whole list.
FindingsKept ==
    /\ query_result.query = "get_findings"
           => IsPrefix(query_result.findings, _findings)
    /\ pc = "done" => output.findings = _findings

\* C11: findings are append-only: every step leaves the earlier findings
\* list as a prefix of the later one, and the final ScanOutput holds every
\* finding get_findings could show before.
C11_FindingsAppendOnly ==
    [][IsPrefix(_findings, _findings')]_vars /\ []FindingsKept

\* A mission returned two findings, of two different steps.
C11_Witness ==
    /\ pc = "done"
    /\ Len(output.findings) = 2
    /\ output.findings[1].step_id # output.findings[2].step_id

TerminalStatuses == {"completed", "killed", "exhausted", "failed"}

\* run has a step to take: it has not begun, it awaits an activity (which
\* returns or fails), or it awaits approval and wait_condition holds.
RunCanStep ==
    \/ pc = "start"
    \/ pc \in ActivityStates
    \/ pc = "await_approval" /\ wait_condition

\* C12: a mission that runs in auto-pilot, or to which an approve_plan (of
\* any step list) or a kill has been delivered, terminates: it has returned
\* one of the four terminal statuses or run still has a step to take (run
\* takes finitely many steps, so it returns unless it is stuck).
C12_MissionTerminates ==
    /\ pc = "done" => output.status \in TerminalStatuses
    /\ (input.auto_pilot \/ approvals_before # <<>> \/ _is_killed)
           => (pc = "done" \/ RunCanStep)

\* C13: a mission that has returned published an event carrying its terminal
\* status, as its last event.
C13_TerminalStatusEmitted ==
    pc = "done" =>
        /\ emitted # <<>>
        /\ emitted[Len(emitted)].type = output.status

\* C15: while run awaits send_finding_notification for a recorded finding,
\* no step ends the mission: the run goes on to the next finding or to
\* emit_step_complete, whatever the notification activity does.
C15_NotificationNeverFailsRun == [][pc = "notify" => pc' # "done"]_vars

ScopeInit ==
    /\ MissionIdle
    /\ FabricInit
    /\ config \in ScopeConfigs
    /\ _audit_log = <<>>
    /\ checked = NoCheck
    /\ called = NoCall /\ engine = EngineIdle /\ command = NoCommand /\ ApiIdle

ScopeNext ==
    \/ \E v \in TargetValues : CheckTarget(v)
    \/ \E arguments \in ScopeToolCalls : ValidateToolCall(arguments)

ScopeSpec == ScopeInit /\ [][ScopeNext]_vars

\* The rules of the scope decision, as the contract words them.
MatchesSensitive(cfg, n) ==
    /\ n.domain # <<>>
    /\ \E i \in 1..Len(cfg.sensitive_patterns) :
           WildcardMatch(cfg.sensitive_patterns[i], n.domain)

MatchesExclusion(cfg, n) ==
    \/ /\ n.domain # <<>>
       /\ \E i \in 1..Len(cfg.excluded_domains) :
              WildcardMatch(cfg.excluded_domains[i], n.domain)
    \/ /\ n.ip # <<>>
       /\ \E i \in 1..Len(cfg.excluded_ips) : InNetwork(n.ip, cfg.excluded_ips[i])

PrivateNotPermitted(cfg, n) ==
    /\ n.ip # <<>>
    /\ \/ is_loopback(n.ip) /\ ~cfg.allow_localhost
       \/ is_private(n.ip) /\ ~cfg.allow_private_ips

MatchesAllow(cfg, n) ==
    \/ /\ n.domain # <<>>
       /\ \E i \in 1..Len(cfg.allowed_domains) :
              WildcardMatch(cfg.allowed_domains[i], n.domain)
    \/ /\ n.ip # <<>>
       /\ \E i \in 1..Len(cfg.allowed_ips) : InNetwork(n.ip, cfg.allowed_ips[i])

PriorityOrder(cfg, n, decision) ==
    /\ MatchesSensitive(cfg, n) => decision = DENIED_SENSITIVE
    /\ (~MatchesSensitive(cfg, n) /\ MatchesExclusion(cfg, n))
           => decision = DENIED_EXCLUDED
    /\ (/\ ~MatchesSensitive(cfg, n) /\ ~MatchesExclusion(cfg, n)
        /\ PrivateNotPermitted(cfg, n)) => decision = DENIED_PRIVATE_IP
    /\ decision = ALLOWED <=>
           /\ ~MatchesSensitive(cfg, n) /\ ~MatchesExclusion(cfg, n)
           /\ ~PrivateNotPermitted(cfg, n) /\ MatchesAllow(cfg, n)
    /\ (/\ ~MatchesSensitive(cfg, n) /\ ~MatchesExclusion(cfg, n)
        /\ ~PrivateNotPermitted(cfg, n) /\ ~MatchesAllow(cfg, n))
           => decision = DENIED_OUT_OF_SCOPE

C17_ScopeEnforcerTotal ==
    /\ ~checked.raised
    /\ (checked.op = "check_target" /\ ~normalize_target(checked.arg.s).valid)
           => /\ checked.decision = DENIED_OUT_OF_SCOPE
              /\ checked.reason = "Invalid target format"

\* C18: every call of check_target that returns appends exactly one entry,
\* that of the target and the decision returned, to the audit log, which
\* keeps the most recent AuditLogMax entries in decision order.
C18_EveryDecisionLogged ==
    [][(/\ checked'.call # checked.call
        /\ checked'.op = "check_target"
        /\ ~checked'.raised)
          => _audit_log' = log_decisions(_audit_log,
                 <<[target |-> checked'.arg.s, decision |-> checked'.decision]>>)]_vars

BudgetInit == MissionInit /\ FabricInit /\ ScopeIdle /\ called = NoCall /\ engine = EngineIdle /\ command = NoCommand /\ ApiIdle

BudgetNext ==
    \/ CheckCanProceed
    \/ \E cost \in ToolCosts : RecordAction(TC_scan, cost)
    \/ RecordError
    \/ BudgetPause
    \/ BudgetResume
    \/ \E r \in KillReasons : BudgetKill(r)
    \/ BudgetTick

BudgetSpec == BudgetInit /\ [][BudgetNext]_vars

LoopNext == \E a \in LoopActions : RepeatAction(a)

LoopSpec == BudgetInit /\ [][LoopNext]_vars

\* The conditions that stop a mission, in the order of the contract, and the
\* reason given for each.
Blockers(st, b, t) ==
    <<st.is_killed,
      st.is_paused,
      st.steps_taken >= b.max_steps,
      st.total_cost_usd >= b.max_cost_usd,
      (t - st.started_at) * 60 > b.max_runtime_minutes * 60,
      (t - st.last_action_at) * 60 > b.max_idle_seconds,
      st.consecutive_errors >= b.max_consecutive_errors>>

BlockerReasons(st) ==
    <<<<"Mission killed: ">> \o st.kill_reason, PausedReason,
      <<"Step budget exhausted">>, <<"Cost budget exhausted">>,
      <<"Time budget exhausted">>, <<"Agent idle too long">>,
      <<"Too many consecutive errors">>>>

FirstBlocker(st, b, t) ==
    CHOOSE i \in 1..7 : Blockers(st, b, t)[i] /\ \A j \in 1..(i - 1) : ~Blockers(st, b, t)[j]

\* C19: check_can_proceed returns (true, no reason) exactly when no stopping
\* condition holds, otherwise false with the reason of the first condition
\* that holds in the order killed, paused, steps, cost, runtime, idle,
\* consecutive errors; the call changes no field of the budget state.
C19_CheckCanProceedDecision ==
    [][called'.op = "check_can_proceed" =>
          /\ state' = state
          /\ called'.ok <=> \A i \in 1..7 : ~Blockers(state, budget, now)[i]
          /\ called'.ok => called'.reason = <<>>
          /\ ~called'.ok =>
                 called'.reason = BlockerReasons(state)[FirstBlocker(state, budget, now)]]_vars

C19_Witness ==
    /\ called.op = "check_can_proceed"
    /\ state.is_killed /\ state.is_paused
    /\ state.steps_taken >= budget.max_steps
    /\ ~called.ok
    /\ called.reason = <<"Mission killed: ">> \o state.kill_reason

\* The share test of the contract on a history h of signatures, with window w.
MostFrequentShareReached(h, w) ==
    /\ Len(h) >= w
    /\ \E x \in {h[i] : i \in (Len(h) - w + 1)..Len(h)} :
           10 * Cardinality({i \in (Len(h) - w + 1)..Len(h) : h[i] = x}) >= 8 * w

\* C20: after a record_action call LOOP_DETECTED is raised if and only if
\* the history holds at least loop_detection_window entries and the most
\* frequent signature among the last loop_detection_window entries has a
\* share of at least 0.8.
C20_LoopDetectedIff ==
    called.op = "record_action" =>
        ("loop_detected" \in {called.violations[i] : i \in 1..Len(called.violations)}
             <=> MostFrequentShareReached(state.action_history, LoopDetectionWindow))

C20_Witness ==
    /\ called.op = "record_action"
    /\ called.violations = <<"loop_detected">>
    /\ Len(state.action_history) = LoopDetectionWindow
    /\ Count(state.action_history, state.action_history[1]) = 8

(***************************************************************************)
(* A mission whose plan repeats one action: plans as long as the loop      *)
(* detection window and longer, with and without auto-pilot, every tool    *)
(* succeeding at no cost and without findings.                             *)
(***************************************************************************)
LoopPlans ==
    {[i \in 1..n |-> PlanStep(i, IF i <= k THEN TC_scan ELSE TC_scan_again)] :
        n \in {LoopDetectionWindow, MaxLoopPlan}, k \in 0..MaxLoopPlan}

LoopMissionInputs == {ScanInput(TRUE, FALSE, 50, 60), ScanInput(FALSE, FALSE, 50, 60)}

LoopMissionInit ==
    /\ input \in LoopMissionInputs
    /\ MissionFresh /\ FabricInit /\ ScopeIdle /\ called = NoCall /\ engine = EngineIdle /\ command = NoCommand /\ ApiIdle

LoopMissionNext ==
    \/ RunStart
    \/ \E p \in LoopPlans : PlanReady(p)
    \/ EmitPlanDone
    \/ ApprovePlanSignal(1..Len(_plan.steps))
    \/ ApprovalWake
    \/ ToolDone(0, 0)
    \/ EmitDone

LoopMissionSpec == LoopMissionInit /\ [][LoopMissionNext]_vars

\* C21: once the budget enforcer has flagged LOOP_DETECTED on the action
\* just recorded, no further execute_tool is dispatched, and the mission ends
\* with status failed and an error_message naming the loop.
C21_LoopDetectedFailsMission ==
    /\ [][loop_violations(state, budget) # <<>> => invoked' = invoked]_vars
    /\ []((pc = "done" /\ loop_violations(state, budget) # <<>>)
             => (output.status = "failed" /\ output.error_message = <<"loop detected">>))

\* record_retry calls only, on the enforcer of a mission.
RetryNext == \E target \in RetryTargets : RecordRetry(target)

RetrySpec == BudgetInit /\ [][RetryNext]_vars

\* The retry counter of a target.
RetriesOf(st, target) == retry_count(st.retry_counts, budget_normalize_target(target))

\* C22: record_retry returns true exactly while the target's counter is
\* below max_retries_per_target and then counts one more; a refused call
\* changes nothing; no counter exceeds the cap; the spellings of one target
\* share a counter, and a call leaves other targets' counters alone.
C22_RetryQuota ==
    /\ [][called'.op = "record_retry" =>
             /\ called'.ok <=> RetriesOf(state, called'.arg) < MaxRetriesPerTarget
             /\ called'.ok =>
                    RetriesOf(state', called'.arg) = RetriesOf(state, called'.arg) + 1
             /\ ~called'.ok => state' = state
             /\ called'.arg \in {S_www, S_www_padded} =>
                    RetriesOf(state', S_evil) = RetriesOf(state, S_evil)
             /\ called'.arg = S_evil =>
                    RetriesOf(state', S_www) = RetriesOf(state, S_www)]_vars
    /\ [](/\ \A target \in RetryTargets :
                RetriesOf(state, target) <= MaxRetriesPerTarget
          /\ RetriesOf(state, S_www_padded) = RetriesOf(state, S_www)
          /\ \A i \in 1..Len(state.retry_counts) :
                state.retry_counts[i].n <= MaxRetriesPerTarget
          /\ Len(state.retry_counts) <= 2)

C22_Witness ==
    /\ called.op = "record_retry"
    /\ called.arg = S_www_padded
    /\ ~called.ok
    /\ RetriesOf(state, S_www) = MaxRetriesPerTarget
    /\ RetriesOf(state, S_evil) = 1

\* The ids of the steps of the plan.
PlanIds == {_plan.steps[i].id : i \in 1..Len(_plan.steps)}

\* Every step of the plan passes validate_tool_call.
AllStepsInScope ==
    \A i \in 1..Len(_plan.steps) :
        validate_tool_call(scope_config, _plan.steps[i].tool.arguments).is_valid

\* A run without irregularity: no activity failed, the only signals were
\* approvals, and no wall-clock time passed.
QuietRun ==
    /\ output.error_message # ActivityError
    /\ n_signals = Len(approvals_before) + n_approve_after
    /\ now = 0

\* C23: without auto-pilot, when the observer approved all steps of the plan
\* once, every step is in scope, every tool succeeded, the plan is no longer
\* than max_steps, the cost recorded is within max_cost_usd and no pause or
\* kill was sent, the mission ends completed with steps_taken equal to the
\* number of approved steps.
C23_ApprovedPlanCompletes ==
    (/\ pc = "done"
     /\ ~input.auto_pilot
     /\ approvals_before = <<PlanIds>> /\ n_approve_after = 0
     /\ AllStepsInScope
     /\ QuietRun
     /\ Len(_plan.steps) <= input.max_steps
     /\ output.cost_usd <= input.max_cost_usd)
        => /\ output.status = "completed"
           /\ output.steps_taken = Len(_plan.steps)

FailsScope(step) ==
    LET ts == DispatchTargets(step)
    IN  \/ ts = <<>>
        \/ \E i \in 1..Len(ts) : check_target(scope_config, ts[i]).decision # ALLOWED

\* The approved steps after the current one.
LaterApproved == {k \in (idx + 1)..Len(_plan.steps) : _plan.steps[k].id \in _approved_steps}

\* emit_scope_violation returned and run went on.
ScopeSkipDone ==
    /\ pc = "emit_scope" /\ pc' # "emit_scope"
    /\ ~(pc' = "done" /\ output'.error_message = ActivityError)

ScopeViolationsIn(events, s) ==
    {k \in 1..Len(events) : events[k].type = "scope_violation" /\ events[k].step_id = s}

ScopeViolationsOf(s) == ScopeViolationsIn(emitted, s)

\* C25: a step whose tool call fails scope validation is never executed;
\* run awaits emit_scope_violation for it, and when that returns one
\* scope_violation event with the step's id and the validation message has
\* been published, steps_taken, cost and findings are as before, and run is
\* at the next approved step or has returned (completed when no approved step
\* is left, exhausted when the budget refuses the next one).  No step has two
\* scope_violation events, an executed step has none, and a run with a
\* skipped step that nothing else disturbed returns completed.
C25_ScopeSkippedStep ==
    /\ [][invoked' # invoked =>
            /\ ~FailsScope(invoked'[Len(invoked')])
            /\ ScopeViolationsIn(emitted', invoked'[Len(invoked')].step_id) = {}]_vars
    /\ [][(pc' = "emit_scope" /\ (pc # "emit_scope" \/ idx' # idx)) =>
            /\ FailsScope(_plan'.steps[idx'])
            /\ ScopeViolationsIn(emitted', _plan'.steps[idx'].id) = {}]_vars
    /\ [][(pc # "done" /\ pc' = "done") =>
            ((/\ QuietRun
              /\ \E s \in StepIds : ScopeViolationsOf(s) # {}
              /\ check_can_proceed(state, budget, now).ok)
                 => output.status = "completed")']_vars
    /\ [][ScopeSkipDone =>
            /\ emitted' = Append(emitted,
                   [type |-> "scope_violation", step_id |-> _plan.steps[idx].id,
                    message |-> IF DispatchTargets(_plan.steps[idx]) = <<>>
                                THEN "No target found in tool arguments"
                                ELSE "Scope violation"])
            /\ state' = state /\ _findings' = _findings
            /\ \A k \in 1..Len(invoked') : invoked'[k].step_id # _plan.steps[idx].id
            /\ IF LaterApproved = {}
               THEN pc' = "done" /\ output'.status = "completed"
               ELSE IF check_can_proceed(state, budget, now).ok
               THEN /\ pc' \in {"tool", "emit_scope"}
                    /\ idx' \in LaterApproved
                    /\ \A k \in LaterApproved : idx' <= k
               ELSE pc' = "done" /\ output'.status = "exhausted"]_vars

\* A two-step plan whose first step was skipped for scope and whose second
\* step ran: the mission returned completed with one step taken.
C25_Witness ==
    /\ pc = "done" /\ QuietRun /\ output.status = "completed"
    /\ Len(_plan.steps) = 2 /\ Len(emitted) >= 2
    /\ emitted[Len(emitted) - 1] = [type |-> "scope_violation", step_id |-> 1,
                                    message |-> "Scope violation"]
    /\ Len(invoked) = 1 /\ invoked[1].step_id = 2
    /\ output.steps_taken = 1

(***************************************************************************)
(* The workflow over plans that hold a step of an unknown tool, without    *)
(* pause, kill or clock.                                                   *)
(***************************************************************************)
ToolErrorPlans ==
    {<<PlanStep(1, TC_unknown), PlanStep(2, TC_scan)>>,
     <<PlanStep(1, TC_scan), PlanStep(2, TC_unknown)>>,
     <<PlanStep(1, TC_scan), PlanStep(2, TC_scan)>>}

ToolErrorNext ==
    \/ RunStart
    \/ \E p \in ToolErrorPlans : PlanReady(p)
    \/ EmitPlanDone
    \/ ApprovePlanSignal(1..Len(_plan.steps))
    \/ ApprovalWake
    \/ \E cost \in ToolCosts, nf \in 0..MaxFindings : ToolDone(cost, nf)
    \/ NotifyDone
    \/ EmitDone
    \/ ActivityFails

ToolErrorSpec == Init /\ [][ToolErrorNext]_vars

\* execute_tool of the current step raised for good: the step's tool has no
\* definition, and run left the await.
UnknownToolRaised ==
    /\ pc = "tool" /\ pc' # "tool"
    /\ _plan.steps[idx].tool.tool_name \notin BUILTIN_DEFINITIONS

\* C26: when execute_tool raises for a step whose tool is unknown, the
\* mission does not end failed: run goes on to the next approved step, or
\* returns completed when none is left (exhausted when the budget refuses).
C26_UnknownToolFailsOnlyStep ==
    [][UnknownToolRaised =>
        /\ ~(pc' = "done" /\ output'.status = "failed")
        /\ IF LaterApproved = {}
           THEN pc' = "done" /\ output'.status = "completed"
           ELSE \/ idx' \in LaterApproved
                \/ pc' = "done" /\ output'.status = "exhausted"]_vars

\* An attempt of execute_tool failed for a tool the worker knows (a timeout,
\* a network error): the engine starts another attempt or raises in run.
ToolAttemptFailed ==
    /\ pc = "tool"
    /\ _plan.steps[idx].tool.tool_name \in BUILTIN_DEFINITIONS
    /\ \/ attempt' = attempt + 1
       \/ pc' = "done" /\ output'.error_message = ActivityError

\* C27: a failed attempt of execute_tool is retried exactly while the retry
\* count of the step's target is below max_retries_per_target, each retry
\* is counted against that target, and with the quota used up the step is
\* given up without another attempt and without failing the mission.
C27_RetriesWithinTargetQuota ==
    [][ToolAttemptFailed =>
        IF RetriesOf(state, _plan.steps[idx].tool.target) < MaxRetriesPerTarget
        THEN /\ pc' = "tool" /\ attempt' = attempt + 1
             /\ RetriesOf(state', _plan.steps[idx].tool.target)
                    = RetriesOf(state, _plan.steps[idx].tool.target) + 1
        ELSE /\ attempt' # attempt + 1
             /\ ~(pc' = "done" /\ output'.status = "failed")]_vars

ThinkNext ==
    \/ Think
    \/ \E raw \in RawOutputs, store_raises \in BOOLEAN : LlmResponds(raw, store_raises)
    \/ LlmRaises

ThinkSpec == EventInit /\ [][ThinkNext]_vars

\* think made one more call of the model.
ModelCalled == engine.pc = "loop" /\ engine'.llm_calls = engine.llm_calls + 1

\* C28: think calls the model at most max_retries times; an attempt whose
\* output passes validation makes think return that output, with no later
\* call; a failed attempt that is not the last one leaves its error at the
\* end of the prompt of the next attempt; and when the last attempt fails
\* think returns the synthesized terminal step (is_complete true, no
\* tool_call).
C28_ThinkRetriesWithFeedback ==
    /\ [][ModelCalled =>
            /\ engine'.llm_calls <= max_retries
            /\ engine'.last.is_valid =>
                   /\ engine'.pc = "returned"
                   /\ engine'.result = [returned |-> TRUE, step |-> engine'.last.output]
            /\ (~engine'.last.is_valid /\ engine'.llm_calls < max_retries) =>
                   /\ engine'.pc = "loop"
                   /\ engine'.system_prompt
                          = Append(engine.system_prompt, engine'.last.error)
            /\ (~engine'.last.is_valid /\ engine'.llm_calls = max_retries) =>
                   /\ engine'.pc = "returned"
                   /\ engine'.result.step.is_complete
                   /\ engine'.result.step.tool_call = NullCall]_vars
    /\ [][engine.pc = "returned" => engine' = engine]_vars

\* The checks of the guardrail in their order, each as the rule states it.
ParseFails(raw) == ~json_loads_ok(_clean_output(raw))
SchemaFails(raw) == ~model_validate_ok(_clean_output(raw)[1])
CallOf(raw) == _clean_output(raw)[1].tool_call
ToolNotRegistered(raw) ==
    /\ CallOf(raw).type = "dict"
    /\ ~(CallOf(raw).name.kind = "str" /\ CallOf(raw).name.val \in installed_tools)
ArgumentsFail(raw) ==
    /\ CallOf(raw).type = "dict"
    /\ CallOf(raw).name.val \in DOMAIN tool_schemas
    /\ ~(tool_schemas[CallOf(raw).name.val].required \subseteq CallOf(raw).arguments.keys)
Unsafe(raw) ==
    CallOf(raw).type = "dict" /\ CallOf(raw).arguments.text \in DANGEROUS_PATTERNS

FirstFailingCheck(raw) ==
    IF ParseFails(raw) THEN "Invalid JSON"
    ELSE IF SchemaFails(raw) THEN "Schema validation failed"
    ELSE IF ToolNotRegistered(raw) THEN "Hallucination detected"
    ELSE IF ArgumentsFail(raw) THEN "Missing required argument"
    ELSE IF Unsafe(raw)
    THEN "Safety violation: Dangerous pattern detected in arguments"
    ELSE ""

\* C29: an output validate accepts that carries a tool_call names an
\* installed tool, and validate answers with the error of the first failing
\* check in the order JSON parse, schema, tool existence, arguments, safety
\* (accepting when none fails).
C29_AcceptedToolIsRegistered ==
    engine.last.raw # <<>> =>
        /\ (engine.last.is_valid /\ engine.last.output.tool_call # NullCall)
               => /\ engine.last.output.tool_call.name.kind = "str"
                  /\ engine.last.output.tool_call.name.val \in installed_tools
        /\ engine.last.error = FirstFailingCheck(engine.last.raw)
        /\ engine.last.is_valid <=> FirstFailingCheck(engine.last.raw) = ""

CommandNext ==
    \E tool_name \in {"nuclei", "amass"}, arguments \in ArgumentMaps :
        BuildCommand(tool_name, arguments)

CommandSpec == EventInit /\ [][CommandNext]_vars

\* The parameter of the nuclei schema an argument names, if any.
Declared(arg) ==
    {p \in {definitions_cache["nuclei"].parameters[i] :
                i \in 1..Len(definitions_cache["nuclei"].parameters)} :
        p.name = arg.key}

\* The values of a list with a comma between neighbours.
RECURSIVE CommaJoined(_)
CommaJoined(values) ==
    IF Len(values) = 0 THEN <<>>
    ELSE IF Len(values) = 1 THEN values[1]
    ELSE CommaJoined(SubSeq(values, 1, Len(values) - 1))
             \o <<",">> \o values[Len(values)]

\* What one supplied argument adds to argv, by the rule of the claim.
Segment(arg) ==
    IF Declared(arg) = {} THEN <<>>
    ELSE LET p == CHOOSE q \in Declared(arg) : TRUE
         IN  IF p.param_type = "boolean"
             THEN IF arg.val[1] = <<"True">> THEN <<p.flag>> ELSE <<>>
             ELSE IF p.param_type = "array"
             THEN <<p.flag, IF arg.kind = "list" THEN CommaJoined(arg.val)
                                 ELSE arg.val[1]>>
             ELSE <<p.flag, arg.val[1]>>

\* The segments of arguments 1..n one after the other.
RECURSIVE SegmentsUpTo(_, _)
SegmentsUpTo(arguments, n) ==
    IF n = 0 THEN <<>>
    ELSE SegmentsUpTo(arguments, n - 1) \o Segment(arguments[n])

\* C31: for a tool with a definition, argv is the binary path followed by
\* what each supplied argument adds, in the order supplied: the flag alone
\* for a true boolean, nothing for a false boolean, the flag and the
\* comma-joined values for an array, the flag and the stringified value
\* otherwise, and nothing for an argument the schema does not declare.
C31_BuildCommandArgv ==
    (command.tool_name = "nuclei") =>
        /\ ~command.raised
        /\ command.cmd = <<<<"/usr/local/bin/nuclei">>>>
                             \o SegmentsUpTo(command.arguments, Len(command.arguments))

\* A call with a false boolean, an undeclared argument, an array and a
\* scalar: argv is the binary, -tags xss,sqli, -u www.example.com.
C31_Witness ==
    /\ command.tool_name = "nuclei"
    /\ command.arguments =
           <<BoolArg("json_output", FALSE),
             [key |-> "tags", kind |-> "list", val |-> <<<<"xss">>, <<"sqli">>>>],
             StrArg("target", S_www)>>
    /\ command.cmd = <<<<"/usr/local/bin/nuclei">>, <<"-tags">>,
                       <<"xss", ",", "sqli">>, <<"-u">>, S_www>>

\* The argument maps with the content of the given one, in every order of
\* insertion.
SameContent(arguments) ==
    {a \in ArgumentMaps : /\ Len(a) = Len(arguments)
                          /\ {a[i] : i \in 1..Len(a)}
                                 = {arguments[i] : i \in 1..Len(arguments)}}

RequiredFlags ==
    {definitions_cache["nuclei"].parameters[i].flag :
        i \in {j \in 1..Len(definitions_cache["nuclei"].parameters) :
                  definitions_cache["nuclei"].parameters[j].required}}

\* C32: for an argument map that holds every required parameter, argv
\* holds the flag of every required parameter, and every argument map with
\* the same content gives the same argv, whatever the order of its keys.
C32_CommandStableOrder ==
    (/\ command.tool_name = "nuclei"
     /\ \E i \in 1..Len(command.arguments) : command.arguments[i].key = "target")
        => /\ \A f \in RequiredFlags :
                  \E k \in 1..Len(command.cmd) : command.cmd[k] = f
           /\ \A a \in SameContent(command.arguments) :
                  build_command("nuclei", a).cmd = command.cmd

\* The listener handles a message that is routed to the subscribers of its
\* channel.
ChannelDelivery ==
    /\ inbox # <<>> /\ inbox' = Tail(inbox)
    /\ route(Head(inbox).channel, Head(inbox).data).to = "channel"
    /\ Head(inbox).channel \in DOMAIN subscriptions

\* C33: when broadcast_to_channel delivers a message, a session whose send
\* fails is evicted from the connections and from every subscriber set, and
\* every other connected subscriber of the channel receives the message:
\* each subscriber still connected afterwards has it as its latest frame.
C33_FailedSendEvictsOnly ==
    [][ChannelDelivery =>
        /\ \A x \in active_connections \ active_connections' :
               \A c \in DOMAIN subscriptions' : x \notin subscriptions'[c]
        /\ \A x \in (subscriptions[Head(inbox).channel] \cap active_connections)
                        \cap active_connections' :
               received'[x] = Append(received[x],
                   route(Head(inbox).channel, Head(inbox).data).frame)]_vars

ConnectionNext ==
    \/ \E x \in Sessions : EndpointConnect(x)
    \/ \E x \in Sessions, c \in SessionChannels, subscribing, fails \in BOOLEAN :
           EndpointRequest(x, c, subscribing, fails)
    \/ \E x \in Sessions : EndpointDisconnect(x)
    \/ PublishToAll
    \/ \E order \in Orders(active_connections) : BroadcastBegin(order)
    \/ \E fails, gives_up \in BOOLEAN : SendReturns(fails, gives_up)

ConnectionSpec == EventInit /\ [][ConnectionNext]_vars

\* The session broadcast is sending to, those it has sent to, and those
\* whose send raised.
Current == delivery.order[delivery.pos]
SentTo == {delivery.order[j] : j \in 1..(delivery.pos - 1)} \cup {Current}
BroadcastEnds == delivery.busy /\ ~delivery'.busy

\* C34: a connect or disconnect between the sends of a broadcast does not
\* end the broadcast early: the broadcast ends after the send to the last
\* session, and by then every session that was connected from its beginning
\* to its end has been sent the message (once: a broadcast sends to a
\* session id at most once).
C34_BroadcastSurvivesInterleaving ==
    [][BroadcastEnds =>
          /\ delivery.pos = Len(delivery.order)
          /\ \A x \in delivery.stayed \ delivery.disconnected : x \in SentTo]_vars

\* C35: a session that leaves active_connections is in no subscriber set
\* afterwards; nothing is delivered to a session that is not an active
\* connection (a send of a broadcast that began while the session was
\* connected apart); and, whatever the endpoint coroutines do, every
\* session id in a subscriber set is an active connection.
C35_DisconnectedSessionIsGone ==
    [][/\ \A x \in active_connections \ active_connections' :
              \A c \in DOMAIN subscriptions' : x \notin subscriptions'[c]
       /\ \A x \in Sessions :
              received'[x] # received[x] =>
                  x \in active_connections \/ (delivery.busy /\ x = Current)
       /\ \A c \in DOMAIN subscriptions' :
              subscriptions'[c] \subseteq active_connections']_vars

\* C36: the time spent on the plan and on the wait for approval does not
\* count as idleness once the observer interacts: when approve_plan is
\* delivered to a run that awaits approval, the idle governor does not fire
\* for a run that goes on at that instant, whatever the length of the wait,
\* so the first approved step is not refused for idleness.
C36_ApprovalEndsIdleness ==
    [][pc = "await_approval" /\ _approved_steps' # _approved_steps
          => check_can_proceed(state', budget, now').reason
                 # <<"Agent idle too long">>]_vars

\* C37: no pause or kill signal is lost: once _initialize_safety_systems has
\* run, a workflow that is killed has a killed budget enforcer and a
\* workflow that is paused has a paused budget enforcer.
C37_SignalFlagsReachBudget ==
    enforcers => /\ _is_killed => state.is_killed
                 /\ _is_paused => state.is_paused

\* C38: when the tool of a step is dispatched, the tool of every step in
\* its depends_on has been dispatched before it in this run.
C38_DependenciesExecutedFirst ==
    [][invoked' # invoked =>
          LET step == _plan'.steps[idx']
          IN  \A k \in 1..Len(step.depends_on) :
                 \E j \in 1..Len(invoked) :
                    invoked[j].step_id = step.depends_on[k]]_vars

(***************************************************************************)
(* The scope enforcer of a mission whose scope lists hold addresses and    *)
(* CIDR blocks: the ScopeConfig of _initialize_safety_systems, then calls  *)
(* of check_target and validate_tool_call on its enforcer.                 *)
(***************************************************************************)
S_public == <<"8", ".", "8", ".", "8", ".", "8">>

S_public_other == <<"8", ".", "8", ".", "8", ".", "1">>

N_public == <<"8", ".", "8", ".", "8", ".", "0", "/", "24">>

\* The scope lists of a mission: empty, a domain pattern, an address, a block.
MissionScopes ==
    {<<>>, << <<"*", ".", "example", ".", "com">> >>, <<S_public>>, <<N_public>>}

MissionTargets == {Str(S_public), Str(S_public_other), Str(S_www)}

MissionToolCalls ==
    {<<[key |-> "host", kind |-> "str", val |-> <<Str(S_public)>>]>>,
     <<ListArg("hosts", <<Str(S_public_other), Str(S_www)>>)>>}

MissionScopeInit ==
    /\ MissionIdle
    /\ FabricInit
    /\ \E allowed_scope \in MissionScopes, excluded_scope \in MissionScopes :
           config = mission_scope(allowed_scope, excluded_scope)
    /\ _audit_log = <<>>
    /\ checked = NoCheck
    /\ called = NoCall /\ engine = EngineIdle /\ command = NoCommand /\ ApiIdle

MissionScopeNext ==
    \/ \E v \in MissionTargets : CheckTarget(v)
    \/ \E arguments \in MissionToolCalls : ValidateToolCall(arguments)

MissionScopeSpec == MissionScopeInit /\ [][MissionScopeNext]_vars

\* The scope lists the mission was given, wherever the ScopeConfig keeps them.
MissionAllowed == config.allowed_domains \o config.allowed_ips
MissionExcluded == config.excluded_domains \o config.excluded_ips

\* An address inside an address or block of the list.
Listed(ip, scope) == InAnyNetwork(ip, SelectSeq(scope, IsNetwork))

\* C39: a target address inside an address or block of excluded_scope is
\* denied as DENIED_EXCLUDED; a public target address inside an address or
\* block of allowed_scope, and in none of excluded_scope, is allowed by
\* check_target, and a tool call whose targets are all such addresses is valid.
C39_IPScopeEntriesEnforced ==
    /\ checked.op = "check_target" =>
           LET ip == normalize_target(checked.arg.s).ip
           IN  /\ Listed(ip, MissionExcluded) => checked.decision = DENIED_EXCLUDED
               /\ Listed(ip, MissionAllowed) /\ ~Listed(ip, MissionExcluded)
                      => checked.decision = ALLOWED
    /\ checked.op = "validate_tool_call" =>
           LET targets == Strings(targets_to_check(checked.arg, target_keys))
           IN  (\A i \in 1..Len(targets) :
                   /\ Listed(normalize_target(targets[i]).ip, MissionAllowed)
                   /\ ~Listed(normalize_target(targets[i]).ip, MissionExcluded))
               => checked.is_valid

MissionApiNext ==
    \/ \E id \in ApiMissions, raises \in BOOLEAN : create_mission(id, raises)
    \/ \E id \in ApiMissions, status \in Closed \ {"TERMINATED"} :
           WorkflowCloses(id, status)
    \/ \E id \in ApiMissions, raises \in BOOLEAN : get_mission_status(id, raises)
    \/ \E id \in ApiMissions, raises \in BOOLEAN : cancel_mission(id, raises)
    \/ \E id \in ApiMissions, raises \in BOOLEAN : terminate_mission(id, raises)
    \/ \E id \in ApiMissions, raises \in BOOLEAN : signal_mission(id, raises)

MissionApiSpec == EventInit /\ [][MissionApiNext]_vars

TerminalRecordStatuses == {"completed", "failed", "cancelled", "terminated"}

\* C40: once the status of the stored mission record is completed, failed,
\* cancelled or terminated, no request changes it.
C40_TerminalRecordStatusIsFinal ==
    [][\A id \in ApiMissions :
          missions_db[id] \in TerminalRecordStatuses
              => missions_db'[id] = missions_db[id]]_vars

==============================================================================
